---------------------------- MODULE Spec2Model ----------------------------
(***************************************************************************)
(* Model of the CreditParser backend: the XML-to-record transformation     *)
(* layer (xmlParserService / dataTransformerService) and the upload        *)
(* pipeline around it (uploadReport, errorHandler, the CreditReport model).*)
(*                                                                         *)
(* A parsed document is a tree of tagged nodes, as fast-xml-parser builds  *)
(* it: strings, numbers, booleans, objects (ordered key/value pairs) and   *)
(* arrays.  JavaScript strings are TLA+ strings; Len, SubSeq and \o are    *)
(* used for length, substring and concatenation.  Numbers are integers:    *)
(* the documents of the model carry no non-zero fractional digits.         *)
(***************************************************************************)
EXTENDS Integers, Sequences, FiniteSets, TLC

VARIABLES doc, now, results, checked, reqs, db, cloud, inv

vars == <<doc, now, results, checked, reqs, db, cloud, inv>>

\* The state of the upload pipeline, and of the stepwise invocations
uploadVars == <<reqs, db, cloud>>

(***************************************************************************)
(* Bounds of the model.                                                    *)
(***************************************************************************)
MaxClock == 1
MaxCalls == 2
MaxAccounts == 2

(***************************************************************************)
(* JavaScript values.                                                      *)
(***************************************************************************)
U == [t |-> "undef"]
Null == [t |-> "null"]
S(s) == [t |-> "str", s |-> s]
N(n) == [t |-> "num", n |-> n]
B(b) == [t |-> "bool", b |-> b]
O(p) == [t |-> "obj", p |-> p]
Ar(e) == [t |-> "arr", e |-> e]
\* The value of an expression whose evaluation raised a TypeError.
TypeError == [t |-> "TypeError"]

Range(seq) == {seq[i] : i \in DOMAIN seq}

\* Object.keys(x)
Keys(x) == IF x.t = "obj" THEN [i \in 1..Len(x.p) |-> x.p[i][1]] ELSE << >>

\* x[key] on a value that is neither null nor undefined.  The keys read by
\* the program are element names: a string, number, boolean or array has
\* none of them.
Lookup(x, key) ==
    IF x.t = "obj" /\ \E i \in 1..Len(x.p) : x.p[i][1] = key
    THEN x.p[CHOOSE i \in 1..Len(x.p) : x.p[i][1] = key][2]
    ELSE U

Nullish(x) == x.t \in {"undef", "null", "TypeError"}

\* x.key : a TypeError when x is null or undefined.
Member(x, key) == IF Nullish(x) THEN TypeError ELSE Lookup(x, key)

\* x?.key, and the same access without the chaining operator
OptMemberNoChain(x, key) == Member(x, key)
OptMember(x, key) == IF Nullish(x) THEN U ELSE Lookup(x, key)

\* ToBoolean(x)
Truthy(x) ==
    CASE x.t = "str" -> x.s # ""
      [] x.t = "num" -> x.n # 0
      [] x.t = "bool" -> x.b
      [] x.t \in {"obj", "arr", "date"} -> TRUE
      [] OTHER -> FALSE

\* a || b
Or(a, b) == IF Truthy(a) THEN a ELSE b

IsArray(x) == x.t = "arr"

\* typeof x === 'object' && x !== null
IsObjectType(x) == x.t \in {"obj", "arr"}

(***************************************************************************)
(* Strings.                                                                *)
(***************************************************************************)
Char(s, i) == SubSeq(s, i, i)

Digits == {"0", "1", "2", "3", "4", "5", "6", "7", "8", "9"}

DigitVal(c) ==
    CASE c = "0" -> 0 [] c = "1" -> 1 [] c = "2" -> 2 [] c = "3" -> 3
      [] c = "4" -> 4 [] c = "5" -> 5 [] c = "6" -> 6 [] c = "7" -> 7
      [] c = "8" -> 8 [] c = "9" -> 9

RECURSIVE TrimLeft(_)
TrimLeft(s) ==
    IF Len(s) > 0 /\ Char(s, 1) = " " THEN TrimLeft(SubSeq(s, 2, Len(s))) ELSE s

RECURSIVE TrimRight(_)
TrimRight(s) ==
    IF Len(s) > 0 /\ Char(s, Len(s)) = " "
    THEN TrimRight(SubSeq(s, 1, Len(s) - 1))
    ELSE s

\* String.prototype.trim
Trim(s) == TrimRight(TrimLeft(s))

\* String.prototype.substring(from, to) with 0 <= from <= to
Substring(s, from, to) ==
    SubSeq(s, (IF from < Len(s) THEN from ELSE Len(s)) + 1,
              IF to < Len(s) THEN to ELSE Len(s))

\* String.prototype.includes
Includes(s, part) ==
    \E i \in 1..(Len(s) - Len(part) + 1) : SubSeq(s, i, i + Len(part) - 1) = part

LowerOf(c) ==
    CASE c = "A" -> "a" [] c = "B" -> "b" [] c = "C" -> "c" [] c = "D" -> "d"
      [] c = "E" -> "e" [] c = "F" -> "f" [] c = "G" -> "g" [] c = "H" -> "h"
      [] c = "I" -> "i" [] c = "J" -> "j" [] c = "K" -> "k" [] c = "L" -> "l"
      [] c = "M" -> "m" [] c = "N" -> "n" [] c = "O" -> "o" [] c = "P" -> "p"
      [] c = "Q" -> "q" [] c = "R" -> "r" [] c = "S" -> "s" [] c = "T" -> "t"
      [] c = "U" -> "u" [] c = "V" -> "v" [] c = "W" -> "w" [] c = "X" -> "x"
      [] c = "Y" -> "y" [] c = "Z" -> "z" [] OTHER -> c

\* String.prototype.toLowerCase
RECURSIVE ToLower(_)
ToLower(s) ==
    IF Len(s) = 0 THEN ""
    ELSE LowerOf(Char(s, 1)) \o ToLower(SubSeq(s, 2, Len(s)))

RECURSIVE JoinWith(_, _)
JoinWith(parts, sep) ==
    IF parts = << >> THEN ""
    ELSE IF Len(parts) = 1 THEN parts[1]
    ELSE parts[1] \o sep \o JoinWith(Tail(parts), sep)

\* String.prototype.split('.')
RECURSIVE SplitDots(_, _)
SplitDots(s, acc) ==
    IF Len(s) = 0 THEN <<acc>>
    ELSE IF Char(s, 1) = "." THEN <<acc>> \o SplitDots(SubSeq(s, 2, Len(s)), "")
    ELSE SplitDots(SubSeq(s, 2, Len(s)), acc \o Char(s, 1))

\* x.toString() of a value that is neither null nor undefined
RECURSIVE JsToString(_)
JsToString(x) ==
    CASE x.t = "str" -> x.s
      [] x.t = "num" -> ToString(x.n)
      [] x.t = "bool" -> IF x.b THEN "true" ELSE "false"
      [] x.t = "arr" ->
           JoinWith([i \in 1..Len(x.e) |->
                        IF Nullish(x.e[i]) THEN "" ELSE JsToString(x.e[i])], ",")
      [] OTHER -> "[object Object]"

(***************************************************************************)
(* Text, number and date extraction (xmlParserService.js).                 *)
(***************************************************************************)
\* values.find(val => typeof val === 'string') || ''
FirstStringValue(x) ==
    LET idx == {i \in 1..Len(x.p) : x.p[i][2].t = "str"}
    IN  IF idx = {} THEN ""
        ELSE x.p[CHOOSE i \in idx : \A j \in idx : i <= j][2].s

extractText(node) ==
    IF ~Truthy(node) THEN ""
    ELSE IF node.t = "str" THEN Trim(node.s)
    ELSE IF node.t = "num" THEN ToString(node.n)
    ELSE IF Truthy(Lookup(node, "#text")) THEN Trim(JsToString(Lookup(node, "#text")))
    ELSE IF node.t = "obj" THEN FirstStringValue(node)
    ELSE ""

\* text.replace(/[^0-9.-]/g, '')
RECURSIVE KeepNumeric(_)
KeepNumeric(s) ==
    IF Len(s) = 0 THEN ""
    ELSE (IF Char(s, 1) \in Digits \cup {".", "-"} THEN Char(s, 1) ELSE "")
         \o KeepNumeric(SubSeq(s, 2, Len(s)))

\* The value of the longest prefix of s made of digits
RECURSIVE DigitsPrefix(_, _)
DigitsPrefix(s, acc) ==
    IF Len(s) > 0 /\ Char(s, 1) \in Digits
    THEN DigitsPrefix(SubSeq(s, 2, Len(s)), 10 * acc + DigitVal(Char(s, 1)))
    ELSE acc

RECURSIVE CountDigitsPrefix(_)
CountDigitsPrefix(s) ==
    IF Len(s) > 0 /\ Char(s, 1) \in Digits
    THEN 1 + CountDigitsPrefix(SubSeq(s, 2, Len(s)))
    ELSE 0

\* parseFloat of a string of digits, '.' and '-': an optional sign, then
\* digits with an optional fraction; NaN when no digit follows the sign.
\* The integer part is the value (fractions of the model are zero).
parseFloat(s) ==
    LET neg == Len(s) > 0 /\ Char(s, 1) = "-"
        body == IF neg THEN SubSeq(s, 2, Len(s)) ELSE s
        nInt == CountDigitsPrefix(body)
        rest == SubSeq(body, nInt + 1, Len(body))
        nFrac == IF Len(rest) > 0 /\ Char(rest, 1) = "."
                 THEN CountDigitsPrefix(SubSeq(rest, 2, Len(rest)))
                 ELSE 0
        mag == DigitsPrefix(body, 0)
    IN  IF nInt + nFrac = 0 THEN [nan |-> TRUE, v |-> 0]
        ELSE [nan |-> FALSE, v |-> IF neg THEN 0 - mag ELSE mag]

extractNumber(node) ==
    LET number == parseFloat(KeepNumeric(extractText(node)))
    IN  IF number.nan THEN 0 ELSE number.v

(***************************************************************************)
(* Dates.  A Date object is [t |-> "date", valid |-> v, ...]:              *)
(*   v = "yes"    a calendar date, with its year y, month m and day d;     *)
(*   v = "no"     the Invalid Date;                                        *)
(*   v = "engine" a Date whose time value the engine's fallback parser     *)
(*                decides (a date or the Invalid Date): the text is not a  *)
(*                well-formed ISO date, and ECMAScript leaves it open.     *)
(* The Date made by new Date() carries the clock reading.                  *)
(***************************************************************************)
DateNow(clock) == [t |-> "date", valid |-> "yes", ms |-> clock]

IsLeap(y) == (y % 4 = 0 /\ y % 100 # 0) \/ y % 400 = 0

DaysInMonth(y, m) ==
    IF m = 2 THEN (IF IsLeap(y) THEN 29 ELSE 28)
    ELSE IF m \in {4, 6, 9, 11} THEN 30 ELSE 31

AllDigits(s) == \A i \in 1..Len(s) : Char(s, i) \in Digits

HasDigit(s) == \E i \in 1..Len(s) : Char(s, i) \in Digits

\* new Date(text) for a text of the form YYYY-MM-DD, or anything else
NewDate(text) ==
    LET ys == SubSeq(text, 1, 4)
        ms == SubSeq(text, 6, 7)
        ds == SubSeq(text, 9, 10)
        shaped == /\ Len(text) = 10
                  /\ Char(text, 5) = "-" /\ Char(text, 8) = "-"
                  /\ AllDigits(ys) /\ AllDigits(ms) /\ AllDigits(ds)
        y == DigitsPrefix(ys, 0)
        m == DigitsPrefix(ms, 0)
        d == DigitsPrefix(ds, 0)
    IN  IF shaped /\ m \in 1..12 /\ d \in 1..DaysInMonth(y, m)
        THEN [t |-> "date", valid |-> "yes", y |-> y, m |-> m, d |-> d]
        ELSE IF ~HasDigit(text)
        THEN [t |-> "date", valid |-> "no"]
        ELSE [t |-> "date", valid |-> "engine", text |-> text]

\* isNaN(date.getTime()) ? null : date
extractDate(node) ==
    LET text == extractText(node)
        date == NewDate(text)
    IN  IF text = "" THEN Null
        ELSE IF date.valid = "no" THEN Null
        ELSE date

(***************************************************************************)
(* Path resolver.                                                          *)
(***************************************************************************)
RECURSIVE WalkPath(_, _)
WalkPath(current, keys) ==
    IF keys = << >> THEN current
    ELSE WalkPath(IF Truthy(current) /\ Lookup(current, Head(keys)) # U
                  THEN Lookup(current, Head(keys))
                  ELSE U,
                  Tail(keys))

getNestedValue(obj, path) == WalkPath(obj, SplitDots(path, ""))

RECURSIVE findValueFromPaths(_, _)
findValueFromPaths(obj, paths) ==
    IF paths = << >> THEN Null
    ELSE IF ~Nullish(getNestedValue(obj, Head(paths)))
    THEN getNestedValue(obj, Head(paths))
    ELSE findValueFromPaths(obj, Tail(paths))

(***************************************************************************)
(* Root location (dataTransformerService).                                 *)
(***************************************************************************)
\* The fallback paths in their order of trial (against: Report tried first)
possibleRootsReportFirst ==
    <<"Report", "CreditReport", "CREDITREPORT", "ExpCreditReport",
      "XMLResponse.CreditReport", "XMLResponse.Response.CreditReport">>

possibleRoots ==
    <<"CreditReport", "CREDITREPORT", "ExpCreditReport", "Report",
      "XMLResponse.CreditReport", "XMLResponse.Response.CreditReport">>

RECURSIVE FirstTruthyPath(_, _)
FirstTruthyPath(obj, paths) ==
    IF paths = << >> THEN U
    ELSE IF Truthy(getNestedValue(obj, Head(paths)))
    THEN getNestedValue(obj, Head(paths))
    ELSE FirstTruthyPath(obj, Tail(paths))

\* The first property of the document whose value is an object (against:
\* the first property, whatever its value)
FirstPropertyValue(parsedXml) ==
    IF Len(Keys(parsedXml)) = 0 THEN Null ELSE parsedXml.p[1][2]

FirstObjectValue(parsedXml) ==
    LET idx == {i \in 1..Len(Keys(parsedXml)) : IsObjectType(parsedXml.p[i][2])}
    IN  IF idx = {} THEN Null
        ELSE parsedXml.p[CHOOSE i \in idx : \A j \in idx : i <= j][2]

findReportRoot(parsedXml) ==
    IF Truthy(Member(parsedXml, "INProfileResponse"))
    THEN Member(parsedXml, "INProfileResponse")
    ELSE IF Truthy(FirstTruthyPath(parsedXml, possibleRoots))
    THEN FirstTruthyPath(parsedXml, possibleRoots)
    ELSE FirstObjectValue(parsedXml)


(***************************************************************************)
(* Basic details.  A field the code never assigns is U (undefined).        *)
(***************************************************************************)
(***************************************************************************)
(* Schema validation (validateExperianXml).                                *)
(***************************************************************************)
experianIndicators ==
    <<"INProfileResponse", "CreditReport", "CREDITREPORT", "ExpCreditReport",
      "Report", "XMLResponse">>

\* Object.keys(x) of an object or an array (its indices)
ObjectKeys(x) ==
    IF x.t = "arr" THEN [i \in 1..Len(x.e) |-> ToString(i - 1)] ELSE Keys(x)

\* rootKeys.some(key => experianIndicators.some(indicator => key includes it)),
\* and the same comparing the names as they are written
hasExperianRootCaseSensitive(rootKeys) ==
    \E i \in DOMAIN rootKeys : \E j \in DOMAIN experianIndicators :
        Includes(rootKeys[i], experianIndicators[j])

hasExperianRoot(rootKeys) ==
    \E i \in DOMAIN rootKeys : \E j \in DOMAIN experianIndicators :
        Includes(ToLower(rootKeys[i]), ToLower(experianIndicators[j]))

\* profileResponse.Header || profileResponse.CAIS_Account
\*   || profileResponse.Current_Application
hasRequiredSections(profileResponse) ==
    Truthy(Or(Or(Member(profileResponse, "Header"),
                 Member(profileResponse, "CAIS_Account")),
              Member(profileResponse, "Current_Application")))

validateExperianXml(parsedData) ==
    IF ~Truthy(parsedData) \/ ~IsObjectType(parsedData) THEN FALSE
    ELSE IF ~hasExperianRoot(ObjectKeys(parsedData)) THEN FALSE
    ELSE IF Truthy(Lookup(parsedData, "INProfileResponse"))
    THEN hasRequiredSections(Lookup(parsedData, "INProfileResponse"))
    ELSE TRUE

namePaths ==
    <<"PersonalInfo.Name", "PersonalInformation.Name", "ApplicantInfo.Name",
      "Consumer.Name", "Header.SubjectName">>

\* [ ... ].filter(part => part && part.trim() !== '').join(', ')
JoinAddress(parts) ==
    JoinWith(SelectSeq(parts, LAMBDA part : part # "" /\ Trim(part) # ""), ", ")

\* The date of a YYYYMMDD code: `${year}-${month}-${day}`
DateOfCode(code) ==
    NewDate(Substring(code, 0, 4) \o "-" \o Substring(code, 4, 6)
            \o "-" \o Substring(code, 6, 8))

\* Date of birth of the applicant block (the sentinel 00010201 and year 0001
\* are "not present")
ApplicantDob(dobString) ==
    IF dobString # "" /\ dobString # "00010201"
       /\ Substring(dobString, 0, 4) # "0001"
    THEN DateOfCode(dobString)
    ELSE U

\* Date of birth of the account-holder block
HolderDob(dobString) ==
    IF dobString # "" /\ Len(dobString) = 8 THEN DateOfCode(dobString) ELSE U

\* The score kept whatever its sign
ScoreUnfiltered(score) == N(score)

\* score > 0 ? score : null
ScoreFilter(score) == IF score > 0 THEN N(score) ELSE Null

\* The first account-detail record: details[0], or details itself (against:
\* the last record of the sequence)
LastDetail(details) ==
    IF IsArray(details)
    THEN (IF Len(details.e) > 0 THEN details.e[Len(details.e)] ELSE U)
    ELSE details

FirstDetail(details) ==
    IF IsArray(details)
    THEN (IF Len(details.e) > 0 THEN details.e[1] ELSE U)
    ELSE details

extractBasicDetails(reportRoot) ==
    LET curApp == Member(reportRoot, "Current_Application")
        appBlock == IF Truthy(curApp)
                    THEN Member(curApp, "Current_Application_Details") ELSE U
        applicantDetails ==
            IF Truthy(curApp)
            THEN OptMember(appBlock, "Current_Applicant_Details") ELSE U
        hasApplicant == Truthy(applicantDetails)
        name1 == IF hasApplicant
                 THEN S(Trim(extractText(Member(applicantDetails, "First_Name"))
                             \o " "
                             \o extractText(Member(applicantDetails, "Last_Name"))))
                 ELSE U
        phone1 == IF hasApplicant
                  THEN S(IF extractText(Member(applicantDetails, "MobilePhoneNumber")) # ""
                         THEN extractText(Member(applicantDetails, "MobilePhoneNumber"))
                         ELSE extractText(Member(applicantDetails,
                                                 "Telephone_Number_Applicant_1st")))
                  ELSE U
        pan1 == IF hasApplicant
                THEN S(extractText(Member(applicantDetails, "IncomeTaxPan"))) ELSE U
        email == IF hasApplicant
                 THEN S(extractText(Member(applicantDetails, "EMailId"))) ELSE U
        dob1 == IF hasApplicant
                THEN ApplicantDob(extractText(Member(applicantDetails,
                                                     "Date_Of_Birth_Applicant")))
                ELSE U
        addressDetails ==
            IF Truthy(curApp)
            THEN OptMember(appBlock, "Current_Applicant_Address_Details") ELSE U
        address1 ==
            IF Truthy(addressDetails)
            THEN S(JoinAddress(
                     <<extractText(Member(addressDetails, "FlatNoPlotNoHouseNo")),
                       extractText(Member(addressDetails, "BldgNoSocietyName")),
                       extractText(Member(addressDetails, "RoadNoNameAreaLocality")),
                       extractText(Member(addressDetails, "City")),
                       extractText(Member(addressDetails, "State")),
                       extractText(Member(addressDetails, "PINCode"))>>))
            ELSE U
        scoreBlock == Member(reportRoot, "SCORE")
        creditScore ==
            IF Truthy(scoreBlock)
            THEN ScoreFilter(extractNumber(Member(scoreBlock, "BureauScore")))
            ELSE U
        caisAccount == Member(reportRoot, "CAIS_Account")
        details == OptMember(caisAccount, "CAIS_Account_DETAILS")
        hasDetails == Truthy(details)
        caisDetails == IF hasDetails THEN FirstDetail(details) ELSE U
        holderDetails ==
            IF hasDetails THEN OptMember(caisDetails, "CAIS_Holder_Details") ELSE U
        hasHolder == Truthy(holderDetails)
        name2 == IF hasHolder /\ ~Truthy(name1)
                 THEN S(Trim(extractText(Member(holderDetails,
                                                "First_Name_Non_Normalized"))
                             \o " "
                             \o extractText(Member(holderDetails,
                                                   "Surname_Non_Normalized"))))
                 ELSE name1
        pan == IF hasHolder /\ ~Truthy(pan1)
               THEN S(extractText(Member(holderDetails, "Income_TAX_PAN")))
               ELSE pan1
        dateOfBirth ==
            IF hasHolder /\ ~Truthy(dob1)
               /\ Truthy(Member(holderDetails, "Date_of_birth"))
            THEN HolderDob(extractText(Member(holderDetails, "Date_of_birth")))
            ELSE dob1
        genderCode == IF hasHolder
                      THEN extractText(Member(holderDetails, "Gender_Code")) ELSE ""
        gender == IF genderCode = "1" THEN S("Male")
                  ELSE IF genderCode = "2" THEN S("Female") ELSE U
        phoneDetails ==
            IF hasDetails THEN OptMember(caisDetails, "CAIS_Holder_Phone_Details")
            ELSE U
        mobilePhone ==
            IF Truthy(phoneDetails) /\ ~Truthy(phone1)
            THEN S(IF extractText(Member(phoneDetails, "Telephone_Number")) # ""
                   THEN extractText(Member(phoneDetails, "Telephone_Number"))
                   ELSE extractText(Member(phoneDetails, "Mobile_Telephone_Number")))
            ELSE phone1
        addrDetails ==
            IF hasDetails THEN OptMember(caisDetails, "CAIS_Holder_Address_Details")
            ELSE U
        address ==
            IF Truthy(addrDetails) /\ ~Truthy(address1)
            THEN S(JoinAddress(
                     <<extractText(Member(addrDetails,
                                          "First_Line_Of_Address_non_normalized")),
                       extractText(Member(addrDetails,
                                          "Second_Line_Of_Address_non_normalized")),
                       extractText(Member(addrDetails,
                                          "Third_Line_Of_Address_non_normalized")),
                       extractText(Member(addrDetails, "City_non_normalized")),
                       extractText(Member(addrDetails, "State_non_normalized")),
                       extractText(Member(addrDetails,
                                          "ZIP_Postal_Code_non_normalized"))>>))
            ELSE address1
        name == IF ~Truthy(name2)
                THEN Or(findValueFromPaths(reportRoot, namePaths), S(""))
                ELSE name2
        accessed == {curApp, appBlock, applicantDetails, addressDetails, scoreBlock,
                     caisAccount, details, holderDetails, phoneDetails, addrDetails}
    IN  IF TypeError \in accessed THEN TypeError
        ELSE [name |-> name, mobilePhone |-> mobilePhone, pan |-> pan,
              email |-> email, dateOfBirth |-> dateOfBirth, gender |-> gender,
              address |-> address, creditScore |-> creditScore]


(***************************************************************************)
(* Report summary.                                                         *)
(***************************************************************************)
accountsPaths == <<"Accounts", "CreditAccounts", "AccountInfo", "TradeLines">>

enquiriesPaths == <<"Enquiries", "CreditEnquiries", "InquiryInfo">>

\* Array.isArray(x) ? x : [x]
AsArray(x) == IF IsArray(x) THEN x.e ELSE <<x>>

RECURSIVE SumSeq(_)
SumSeq(seq) == IF seq = << >> THEN 0 ELSE Head(seq) + SumSeq(Tail(seq))

\* Account status codes counted as active / closed by the summary (against:
\* code 11 alone counted as active)
ActiveCodesNarrow(status) == status = "11"
IsActiveCode(status) == status = "11" \/ status = "53" \/ status = "71"

IsClosedCode(status) == status = "13"

LegacyStatus(account) ==
    extractText(Or(getNestedValue(account, "Status"),
                   getNestedValue(account, "AccountStatus")))

LegacyBalance(account) ==
    extractNumber(Or(getNestedValue(account, "CurrentBalance"),
                     getNestedValue(account, "Balance")))

LegacyType(account) ==
    extractText(Or(getNestedValue(account, "Type"),
                   getNestedValue(account, "AccountType")))

\* if (block) { summary.field = extractNumber(block.key) || 0 }
NumberIn(block, key) == IF Truthy(block) THEN extractNumber(Member(block, key)) ELSE 0

\* The summary after the CAIS_Summary block: its counters and its balances
CaisSummaryTotals(caisSummary) ==
    IF caisSummary = TypeError THEN TypeError
    ELSE IF ~Truthy(caisSummary)
    THEN [totalAccounts |-> 0, activeAccounts |-> 0, closedAccounts |-> 0,
          currentBalanceAmount |-> 0, securedAmount |-> 0, unsecuredAmount |-> 0,
          recentEnquiries |-> 0]
    ELSE [totalAccounts |->
              NumberIn(Member(caisSummary, "Credit_Account"), "CreditAccountTotal"),
          activeAccounts |->
              NumberIn(Member(caisSummary, "Credit_Account"), "CreditAccountActive"),
          closedAccounts |->
              NumberIn(Member(caisSummary, "Credit_Account"), "CreditAccountClosed"),
          currentBalanceAmount |->
              NumberIn(Member(caisSummary, "Total_Outstanding_Balance"),
                       "Outstanding_Balance_All"),
          securedAmount |->
              NumberIn(Member(caisSummary, "Total_Outstanding_Balance"),
                       "Outstanding_Balance_Secured"),
          unsecuredAmount |->
              NumberIn(Member(caisSummary, "Total_Outstanding_Balance"),
                       "Outstanding_Balance_UnSecured"),
          recentEnquiries |-> 0]

AccountStatusOf(account) == extractText(Member(account, "Account_Status"))

CurrentBalanceOf(account) == extractNumber(Member(account, "Current_Balance"))

IsRevolving(account) == extractText(Member(account, "Portfolio_Type")) = "R"

\* accountsArray.forEach(account => ...) of the recount
RecountAccounts(summary, accountsArray) ==
    IF \E i \in DOMAIN accountsArray : Nullish(accountsArray[i]) THEN TypeError
    ELSE
    [summary EXCEPT
       !.totalAccounts = Len(accountsArray),
       !.activeAccounts =
           @ + Cardinality({i \in DOMAIN accountsArray :
                              IsActiveCode(AccountStatusOf(accountsArray[i]))}),
       !.closedAccounts =
           @ + Cardinality({i \in DOMAIN accountsArray :
                              /\ ~IsActiveCode(AccountStatusOf(accountsArray[i]))
                              /\ IsClosedCode(AccountStatusOf(accountsArray[i]))}),
       !.currentBalanceAmount =
           @ + SumSeq([i \in DOMAIN accountsArray |->
                         CurrentBalanceOf(accountsArray[i])]),
       !.unsecuredAmount =
           @ + SumSeq([i \in DOMAIN accountsArray |->
                         IF IsRevolving(accountsArray[i])
                         THEN CurrentBalanceOf(accountsArray[i]) ELSE 0]),
       !.securedAmount =
           @ + SumSeq([i \in DOMAIN accountsArray |->
                         IF IsRevolving(accountsArray[i])
                         THEN 0 ELSE CurrentBalanceOf(accountsArray[i])])]

\* The summary after the account details: recounted when the counters gave
\* no total
SummaryWithDetails(summary, accountDetails) ==
    IF summary = TypeError \/ accountDetails = TypeError THEN TypeError
    ELSE IF Truthy(accountDetails) /\ summary.totalAccounts = 0
    THEN RecountAccounts(summary, AsArray(accountDetails))
    ELSE summary

\* The summary after the CAPS block
SummaryWithCaps(summary, capsSummary) ==
    IF summary = TypeError \/ capsSummary = TypeError THEN TypeError
    ELSE IF Truthy(capsSummary)
    THEN [summary EXCEPT
            !.recentEnquiries = extractNumber(Member(capsSummary, "CAPSLast90Days"))]
    ELSE summary

LegacyIsActive(status) ==
    status # "" /\ (Includes(ToLower(status), "active")
                    \/ Includes(ToLower(status), "current"))

LegacyIsClosed(status) ==
    ~LegacyIsActive(status) /\ status # "" /\ Includes(ToLower(status), "closed")

LegacyIsSecured(accountType) ==
    accountType # "" /\ Includes(ToLower(accountType), "secured")

\* accountsArray.forEach(account => ...) of the legacy format
LegacyTotals(summary, accountsArray) ==
    [summary EXCEPT
       !.totalAccounts = Len(accountsArray),
       !.activeAccounts =
           @ + Cardinality({i \in DOMAIN accountsArray :
                              LegacyIsActive(LegacyStatus(accountsArray[i]))}),
       !.closedAccounts =
           @ + Cardinality({i \in DOMAIN accountsArray :
                              LegacyIsClosed(LegacyStatus(accountsArray[i]))}),
       !.currentBalanceAmount =
           @ + SumSeq([i \in DOMAIN accountsArray |-> LegacyBalance(accountsArray[i])]),
       !.securedAmount =
           @ + SumSeq([i \in DOMAIN accountsArray |->
                         IF LegacyIsSecured(LegacyType(accountsArray[i]))
                         THEN LegacyBalance(accountsArray[i]) ELSE 0]),
       !.unsecuredAmount =
           @ + SumSeq([i \in DOMAIN accountsArray |->
                         IF LegacyIsSecured(LegacyType(accountsArray[i]))
                         THEN 0 ELSE LegacyBalance(accountsArray[i])])]

\* The legacy block: its accounts, then its enquiries
SummaryWithLegacy(summary, accounts, enquiries) ==
    IF summary = TypeError THEN TypeError
    ELSE IF summary.totalAccounts # 0 THEN summary
    ELSE [(IF Truthy(accounts) THEN LegacyTotals(summary, AsArray(accounts))
           ELSE summary)
          EXCEPT !.recentEnquiries =
                    IF Truthy(enquiries) THEN Len(AsArray(enquiries)) ELSE @]

extractReportSummary(reportRoot) ==
    SummaryWithLegacy(
        SummaryWithCaps(
            SummaryWithDetails(
                CaisSummaryTotals(OptMember(Member(reportRoot, "CAIS_Account"),
                                            "CAIS_Summary")),
                OptMember(Member(reportRoot, "CAIS_Account"), "CAIS_Account_DETAILS")),
            OptMember(Member(reportRoot, "CAPS"), "CAPS_Summary")),
        findValueFromPaths(reportRoot, accountsPaths),
        findValueFromPaths(reportRoot, enquiriesPaths))


(***************************************************************************)
(* Credit accounts.                                                        *)
(***************************************************************************)
typeMap ==
    ("10" :> "Credit Card") @@ ("51" :> "Personal Loan") @@ ("52" :> "Personal Loan")
    @@ ("53" :> "Auto Loan") @@ ("61" :> "Housing Loan") @@ ("71" :> "Gold Loan")
    @@ ("81" :> "Two Wheeler Loan")

\* The type label without the portfolio qualifier
getAccountTypeStringNoQualifier(typeCode, portfolio) ==
    IF typeCode \in DOMAIN typeMap THEN typeMap[typeCode] ELSE "Other"

getAccountTypeString(typeCode, portfolio) ==
    LET type == IF typeCode \in DOMAIN typeMap THEN typeMap[typeCode] ELSE "Other"
    IN  type \o (IF portfolio = "R" THEN " (Revolving)" ELSE "")
             \o (IF portfolio = "I" THEN " (Installment)" ELSE "")

statusMap ==
    ("11" :> "Active - Regular") @@ ("12" :> "Active - Regular")
    @@ ("13" :> "Closed - Regular") @@ ("14" :> "Closed - Regular")
    @@ ("21" :> "Active - Irregular") @@ ("22" :> "Active - Irregular")
    @@ ("31" :> "Active - Irregular") @@ ("32" :> "Active - Irregular")
    @@ ("41" :> "Active - Irregular") @@ ("42" :> "Active - Irregular")
    @@ ("51" :> "Active - Irregular") @@ ("52" :> "Active - Irregular")
    @@ ("53" :> "Active - Irregular") @@ ("71" :> "Active - Irregular")
    @@ ("78" :> "Settled") @@ ("80" :> "Settled") @@ ("82" :> "Settled")
    @@ ("83" :> "Settled") @@ ("84" :> "Settled") @@ ("89" :> "Closed")

\* The status label with 'Unknown' for every code outside the table
getAccountStatusUnknown(statusCode) ==
    IF statusCode \in DOMAIN statusMap THEN statusMap[statusCode] ELSE "Unknown"

getAccountStatus(statusCode) ==
    IF statusCode \in DOMAIN statusMap THEN statusMap[statusCode]
    ELSE "Status " \o statusCode

\* Convert date from YYYYMMDD format
convertDate(dateString) ==
    IF dateString = "" \/ Len(dateString) # 8 THEN Null ELSE DateOfCode(dateString)

\* a || b || 0 on numbers
NumOr(a, b) == IF a # 0 THEN a ELSE b

StrOr(a, b) == IF a # "" THEN a ELSE b

StructuredAccount(account) ==
    LET accountType == extractText(Member(account, "Account_Type"))
        portfolioType == extractText(Member(account, "Portfolio_Type"))
    IN  IF Nullish(account) THEN TypeError
        ELSE
        [type |-> getAccountTypeString(accountType, portfolioType),
         bankName |-> StrOr(Trim(extractText(Member(account, "Subscriber_Name"))),
                            "Unknown Bank"),
         accountNumber |-> StrOr(extractText(Member(account, "Account_Number")), "N/A"),
         address |-> "",
         amountOverdue |-> extractNumber(Member(account, "Amount_Past_Due")),
         currentBalance |-> extractNumber(Member(account, "Current_Balance")),
         sanctionedAmount |->
             NumOr(extractNumber(Member(account, "Credit_Limit_Amount")),
                   extractNumber(Member(account,
                                        "Highest_Credit_or_Original_Loan_Amount"))),
         dateOpened |-> convertDate(extractText(Member(account, "Open_Date"))),
         dateClosed |-> convertDate(extractText(Member(account, "Date_Closed"))),
         status |-> getAccountStatus(extractText(Member(account, "Account_Status"))),
         paymentHistory |-> extractText(Member(account, "Payment_History_Profile")),
         paymentRating |-> StrOr(extractText(Member(account, "Payment_Rating")), "0"),
         portfolioType |-> portfolioType,
         lastReported |-> convertDate(extractText(Member(account, "Date_Reported")))]

LegacyField2(account, a, b) == Or(getNestedValue(account, a), getNestedValue(account, b))

LegacyAccount(account) ==
    [type |-> StrOr(LegacyType(account), "Other"),
     bankName |-> extractText(Or(getNestedValue(account, "BankName"),
                                 LegacyField2(account, "Institution", "Creditor"))),
     accountNumber |-> extractText(LegacyField2(account, "AccountNumber", "AccNum")),
     address |-> extractText(getNestedValue(account, "Address")),
     amountOverdue |-> extractNumber(LegacyField2(account, "AmountOverdue", "PastDue")),
     currentBalance |-> LegacyBalance(account),
     sanctionedAmount |->
         extractNumber(LegacyField2(account, "SanctionedAmount", "CreditLimit")),
     dateOpened |-> extractDate(LegacyField2(account, "DateOpened", "OpenDate")),
     dateClosed |-> extractDate(LegacyField2(account, "DateClosed", "CloseDate")),
     status |-> StrOr(LegacyStatus(account), "Active"),
     paymentHistory |-> extractText(getNestedValue(account, "PaymentHistory"))]

\* The records of the structured format
StructuredAccounts(accountDetails) ==
    IF accountDetails = TypeError THEN <<TypeError>>
    ELSE IF Truthy(accountDetails)
    THEN [i \in DOMAIN AsArray(accountDetails) |->
             StructuredAccount(AsArray(accountDetails)[i])]
    ELSE << >>

\* The records of the legacy format
LegacyAccountsOf(accounts) ==
    IF Truthy(accounts)
    THEN [i \in DOMAIN AsArray(accounts) |-> LegacyAccount(AsArray(accounts)[i])]
    ELSE << >>

\* if (accounts.length === 0) { legacy format }
AccountsOrLegacy(accounts, reportRoot) ==
    IF TypeError \in Range(accounts) THEN TypeError
    ELSE IF Len(accounts) = 0
    THEN Ar(LegacyAccountsOf(findValueFromPaths(reportRoot, accountsPaths)))
    ELSE Ar(accounts)

extractCreditAccounts(reportRoot) ==
    AccountsOrLegacy(
        StructuredAccounts(OptMember(Member(reportRoot, "CAIS_Account"),
                                     "CAIS_Account_DETAILS")),
        reportRoot)

(***************************************************************************)
(* Enquiries.                                                              *)
(***************************************************************************)
LegacyEnquiry(enquiry) ==
    [institution |-> extractText(LegacyField2(enquiry, "Institution", "BankName")),
     date |-> extractDate(LegacyField2(enquiry, "Date", "EnquiryDate")),
     amount |-> extractNumber(LegacyField2(enquiry, "Amount", "EnquiryAmount")),
     purpose |-> extractText(LegacyField2(enquiry, "Purpose", "EnquiryPurpose"))]

\* The summary entry with the time of the call in its purpose text too
SyntheticEnquiryStamped(recent90Days, recent30Days, recent7Days, clock) ==
    [institution |-> "Various Institutions",
     date |-> DateNow(clock),
     amount |-> 0,
     purpose |-> ToString(recent90Days) \o " enquiries in last 90 days ("
                 \o ToString(recent30Days) \o " in last 30 days, "
                 \o ToString(recent7Days) \o " in last 7 days) as of "
                 \o ToString(clock)]

\* The summary entry pushed when the 90-day counter is positive
SyntheticEnquiry(recent90Days, recent30Days, recent7Days, clock) ==
    [institution |-> "Various Institutions",
     date |-> DateNow(clock),
     amount |-> 0,
     purpose |-> ToString(recent90Days) \o " enquiries in last 90 days ("
                 \o ToString(recent30Days) \o " in last 30 days, "
                 \o ToString(recent7Days) \o " in last 7 days)"]

\* The entries read from the CAPS summary: one synthesised entry when the
\* 90-day counter is positive
CapsEnquiries(capsSummary, clock) ==
    IF capsSummary = TypeError THEN <<TypeError>>
    ELSE IF Truthy(capsSummary)
            /\ extractNumber(Member(capsSummary, "CAPSLast90Days")) > 0
    THEN <<SyntheticEnquiry(extractNumber(Member(capsSummary, "CAPSLast90Days")),
                            extractNumber(Member(capsSummary, "CAPSLast30Days")),
                            extractNumber(Member(capsSummary, "CAPSLast7Days")),
                            clock)>>
    ELSE << >>

\* The entries of the legacy format
LegacyEnquiriesOf(enquiriesData) ==
    IF Truthy(enquiriesData)
    THEN [i \in DOMAIN AsArray(enquiriesData) |->
             LegacyEnquiry(AsArray(enquiriesData)[i])]
    ELSE << >>

\* if (enquiries.length === 0) { legacy format }, and the same with the
\* legacy entries read in every case
EnquiriesAndLegacy(enquiries, reportRoot) ==
    IF TypeError \in Range(enquiries) THEN TypeError
    ELSE Ar(enquiries
            \o LegacyEnquiriesOf(findValueFromPaths(reportRoot, enquiriesPaths)))

EnquiriesOrLegacy(enquiries, reportRoot) ==
    IF TypeError \in Range(enquiries) THEN TypeError
    ELSE IF Len(enquiries) = 0
    THEN Ar(LegacyEnquiriesOf(findValueFromPaths(reportRoot, enquiriesPaths)))
    ELSE Ar(enquiries)

\* if (reportRoot.CAPS) { capsSummary = reportRoot.CAPS.CAPS_Summary }
CapsSummaryOf(caps) == IF Truthy(caps) THEN Member(caps, "CAPS_Summary") ELSE U

extractEnquiries(reportRoot, clock) ==
    EnquiriesOrLegacy(
        CapsEnquiries(CapsSummaryOf(Member(reportRoot, "CAPS")), clock),
        reportRoot)

(***************************************************************************)
(* transform: the outcome of transformCreditReportData at a clock reading. *)
(* A thrown error is [ok |-> FALSE, message |-> ...].                      *)
(***************************************************************************)
RootNotFound == "Data transformation failed: Could not find credit report data in XML"

OtherFailure == "Data transformation failed: TypeError"

\* transformedData, or the error thrown by an extractor
TransformedData(basicDetails, reportSummary, creditAccounts, enquiries, clock) ==
    IF TypeError \in {basicDetails, reportSummary, creditAccounts, enquiries}
    THEN [ok |-> FALSE, message |-> OtherFailure]
    ELSE [ok |-> TRUE,
          basicDetails |-> basicDetails,
          reportSummary |-> reportSummary,
          creditAccounts |-> creditAccounts.e,
          enquiries |-> enquiries.e,
          reportDate |-> DateNow(clock)]

TransformRoot(reportRoot, clock) ==
    IF ~Truthy(reportRoot) THEN [ok |-> FALSE, message |-> RootNotFound]
    ELSE TransformedData(extractBasicDetails(reportRoot),
                         extractReportSummary(reportRoot),
                         extractCreditAccounts(reportRoot),
                         extractEnquiries(reportRoot, clock),
                         clock)

transformCreditReportData(parsedXml, clock) ==
    IF Nullish(parsedXml) THEN [ok |-> FALSE, message |-> OtherFailure]
    ELSE TransformRoot(findReportRoot(parsedXml), clock)


(***************************************************************************)
(* The documents of the model.  Obj builds an object from key/value pairs, *)
(* leaving out the keys whose value is U (an element that is not there).   *)
(***************************************************************************)
Obj(pairs) == O(SelectSeq(pairs, LAMBDA kv : kv[2] # U))

\* Sequences over a set, of the given lengths
SeqsOf(set, lens) == UNION {[1..n -> set] : n \in lens}

\* ---- account-detail records
Holder(dob) ==
    Obj(<< <<"First_Name_Non_Normalized", S("ASHA")>>,
           <<"Surname_Non_Normalized", S("RAO")>>,
           <<"Income_TAX_PAN", S("HOLDR1234P")>>,
           <<"Date_of_birth", dob>>,
           <<"Gender_Code", N(2)>> >>)

Detail(type, portfolio, status, balance, limit, holder) ==
    Obj(<< <<"Account_Type", type>>, <<"Portfolio_Type", portfolio>>,
           <<"Subscriber_Name", S("Test Bank")>>,
           <<"Account_Number", S("1234")>>,
           <<"Account_Status", status>>, <<"Current_Balance", balance>>,
           <<"Credit_Limit_Amount", limit>>,
           <<"Highest_Credit_or_Original_Loan_Amount", S("900")>>,
           <<"Open_Date", S("20200101")>>, <<"Date_Reported", N(20241001)>>,
           <<"Date_Closed", S("2022")>>,
           <<"CAIS_Holder_Details", holder>> >>)

TypeCodes == {S("10"), N(51), S("99"), U}
PortfolioTypes == {S("R"), S("I"), U}
StatusCodes == {S("11"), S("12"), S("13"), N(71), S("53"), S("89"), S("99"), U}

SingleDetails ==
    {Detail(ty, pf, st, S("1000"), S("5000"), U) :
        ty \in TypeCodes, pf \in PortfolioTypes, st \in StatusCodes}

ArrayDetails ==
    {Detail(S("10"), S("R"), S("11"), S("300"), U, U),
     Detail(N(51), S("I"), N(71), S("200"), N(0), U),
     Detail(S("61"), S("I"), S("13"), S("0"), S("700"), U),
     Detail(S("99"), U, S("97"), S("Rs 1,500"), U, U)}

\* An empty element, a zero and a text where a record is expected
ScalarDetails == {S(""), N(0), S("text")}

CaisSummaries ==
    {U,
     Obj(<< <<"Credit_Account",
              Obj(<< <<"CreditAccountTotal", S("2")>>,
                     <<"CreditAccountActive", S("2")>>,
                     <<"CreditAccountClosed", N(0)>> >>)>>,
            <<"Total_Outstanding_Balance",
              Obj(<< <<"Outstanding_Balance_Secured", S("250")>>,
                     <<"Outstanding_Balance_UnSecured", S("500")>>,
                     <<"Outstanding_Balance_All", S("750")>> >>)>> >>),
     Obj(<< <<"Total_Outstanding_Balance",
              Obj(<< <<"Outstanding_Balance_All", S("750")>> >>)>> >>),
     Obj(<< <<"Credit_Account",
              Obj(<< <<"CreditAccountTotal", S("-3")>>,
                     <<"CreditAccountClosed", N(-1)>> >>)>>,
            <<"Total_Outstanding_Balance",
              Obj(<< <<"Outstanding_Balance_Secured", S("-250")>>,
                     <<"Outstanding_Balance_All", N(-250)>> >>)>> >>)}

Profile(application, score, summary, details, caps) ==
    Obj(<< <<"INProfileResponse",
             Obj(<< <<"Current_Application", application>>,
                    <<"SCORE", score>>,
                    <<"CAIS_Account",
                      IF summary = U /\ details = U THEN U
                      ELSE Obj(<< <<"CAIS_Summary", summary>>,
                                  <<"CAIS_Account_DETAILS", details>> >>)>>,
                    <<"CAPS", caps>> >>)>> >>)

AccountDocs ==
    {Profile(U, U, U, d, U) : d \in SingleDetails \cup ScalarDetails}
    \cup {Profile(U, U, U, Ar(<<d>>), U) : d \in SingleDetails \cup ScalarDetails}
    \cup {Profile(U, U, sm, Ar(ds), U) :
            sm \in CaisSummaries, ds \in SeqsOf(ArrayDetails, 2..MaxAccounts)}

\* ---- applicant block, score block
DobCodes ==
    {U, S("19900515"), N(19851231), S("00010201"), S("00011231"), S("1990"),
     S("199005150"), S("20230230"), S("abcdefgh"), S("")}

HolderDobCodes == {U, S("19800229"), S("00010201"), S("00010101"), S("198002"), N(0)}

Applicant(first, dob) ==
    Obj(<< <<"Current_Application_Details",
             Obj(<< <<"Current_Applicant_Details",
                      Obj(<< <<"First_Name", first>>, <<"Last_Name", S("Doe")>>,
                             <<"MobilePhoneNumber", S("9876543210")>>,
                             <<"IncomeTaxPan", S("ABCDE1234F")>>,
                             <<"Date_Of_Birth_Applicant", dob>> >>)>>,
                    <<"Current_Applicant_Address_Details",
                      Obj(<< <<"FlatNoPlotNoHouseNo", N(123)>>,
                             <<"BldgNoSocietyName", S(" ")>>,
                             <<"City", S("Mumbai")>>,
                             <<"PINCode", N(400001)>> >>)>> >>)>> >>)

Scores ==
    {U, Obj(<< <<"BureauScore", S("750")>> >>), Obj(<< <<"BureauScore", N(950)>> >>),
     Obj(<< <<"BureauScore", S("5")>> >>), Obj(<< <<"BureauScore", S("0")>> >>),
     Obj(<< <<"BureauScore", N(0)>> >>), Obj(<< <<"BureauScore", S("-720")>> >>),
     Obj(<< <<"BureauScore", N(-1)>> >>), Obj(<< <<"BureauScore", S("NA")>> >>),
     Obj(<< <<"BureauScore", Obj(<< <<"#text", N(810)>> >>)>> >>),
     Obj(<< <<"BureauScore", B(TRUE)>> >>),
     Obj(<< <<"Other", S("1")>> >>), S("780")}

HolderDetails ==
    {U} \cup {Detail(S("10"), S("R"), S("11"), S("100"), U, Holder(hdob)) :
                hdob \in HolderDobCodes}

BasicDocs ==
    {Profile(Applicant(S("John"), dob), U, U, d, U) :
        dob \in DobCodes, d \in HolderDetails}
    \cup {Profile(U, U, U, Ar(<<d>>), U) : d \in HolderDetails \ {U}}
    \cup {Profile(app, sc, U, U, U) :
            app \in {U, S(""), Applicant(U, U)}, sc \in Scores}

\* ---- holder blocks in the first and in a later account-detail record
OtherHolder ==
    Obj(<< <<"First_Name_Non_Normalized", S("RAVI")>>,
           <<"Surname_Non_Normalized", S("SEN")>>,
           <<"Income_TAX_PAN", S("OTHER9999Z")>>,
           <<"Date_of_birth", S("19750101")>>,
           <<"Gender_Code", N(1)>> >>)

WithContact(record, phone, address) ==
    O(record.p \o << <<"CAIS_Holder_Phone_Details", phone>>,
                     <<"CAIS_Holder_Address_Details", address>> >>)

HolderRecords ==
    {Detail(S("10"), S("R"), S("11"), S("100"), U, U),
     Detail(S("10"), S("R"), S("11"), S("100"), U, Holder(S("19800229"))),
     WithContact(Detail(N(51), S("I"), S("13"), S("100"), U, OtherHolder),
                 Obj(<< <<"Telephone_Number", S("0221234567")>> >>),
                 Obj(<< <<"First_Line_Of_Address_non_normalized", S("12 Hill Road")>>,
                        <<"City_non_normalized", S("Pune")>> >>))}

\* An applicant block with a name and nothing else
SparseApplicant ==
    Obj(<< <<"Current_Application_Details",
             Obj(<< <<"Current_Applicant_Details",
                      Obj(<< <<"First_Name", S("Jane")>>,
                             <<"IncomeTaxPan", S("")>> >>)>> >>)>> >>)

HolderDocs ==
    {Profile(app, U, U, Ar(<<d1, d2>>), U) :
        app \in {U, Applicant(S("John"), S("19900515")), SparseApplicant},
        d1 \in HolderRecords, d2 \in HolderRecords}
    \cup {Profile(app, U, U, d, U) :
            app \in {U, SparseApplicant}, d \in HolderRecords}

\* ---- enquiry counters and the legacy collections
CapsBlocks ==
    {U, Obj(<< <<"CAPS_Summary",
                 Obj(<< <<"CAPSLast90Days", S("2")>>, <<"CAPSLast30Days", N(1)>>,
                        <<"CAPSLast7Days", S("0")>> >>)>> >>),
     Obj(<< <<"CAPS_Summary", Obj(<< <<"CAPSLast90Days", N(0)>> >>)>> >>),
     Obj(<< <<"CAPS_Summary", S("")>> >>)}

LegacyAccounts ==
    {Obj(<< <<"Type", S("Secured Loan")>>, <<"BankName", S("Old Bank")>>,
            <<"Status", S("Active")>>, <<"CurrentBalance", S("400")>>,
            <<"DateOpened", S("2020-01-15")>> >>),
     Obj(<< <<"AccountType", S("Card")>>, <<"AccountStatus", S("CLOSED")>>,
            <<"Balance", N(50)>> >>)}

LegacyEnquiries ==
    {Obj(<< <<"Institution", S("Old Bank")>>, <<"Date", S("2024-03-01")>>,
            <<"Amount", S("1000")>>, <<"Purpose", S("Loan")>> >>),
     Obj(<< <<"BankName", S("Other Bank")>>, <<"EnquiryAmount", N(5)>> >>)}

Collections(records) ==
    {U} \cup records \cup {S(""), N(0)}
    \cup {Ar(rs) : rs \in SeqsOf(records \cup {S("")}, 1..2)}

LegacyRoot(nameNode, accounts, enquiries, caps) ==
    Obj(<< <<"PersonalInfo", IF nameNode = U THEN U
                             ELSE Obj(<< <<"Name", nameNode>> >>)>>,
           <<"Accounts", accounts>>, <<"Enquiries", enquiries>>,
           <<"CAPS", caps>> >>)

LegacyNames == {U, S("Jane Roe"), N(42), Obj(<< <<"First", S("Jane")>> >>)}

LegacyDocs ==
    {Obj(<< <<"CreditReport", LegacyRoot(nm, U, U, U)>> >>) : nm \in LegacyNames}
    \cup {Obj(<< <<"CreditReport", LegacyRoot(U, ac, U, U)>> >>) :
            ac \in Collections(LegacyAccounts)}
    \cup {Obj(<< <<"Report", LegacyRoot(U, U, en, cp)>> >>) :
            en \in Collections(LegacyEnquiries), cp \in CapsBlocks}

\* ---- the top level of the document
SmallRoot == LegacyRoot(S("Jane Roe"), U, U, U)

TopKeys ==
    {"?xml", "INProfileResponse", "CreditReport", "creditreport", "MyReport",
     "XMLResponse", "Foo"}

TopValues ==
    {S(""), S("text"), O(<< >>), SmallRoot,
     Obj(<< <<"CreditReport", SmallRoot>> >>),
     Obj(<< <<"Response", Obj(<< <<"CreditReport", SmallRoot>> >>)>> >>),
     Obj(<< <<"Header", S("h")>> >>),
     Obj(<< <<"Header", S("")>>, <<"Body", SmallRoot>> >>)}

RootDocs ==
    {O(<< >>)}
    \cup {O(<< <<k, v>> >>) : k \in TopKeys, v \in TopValues}
    \cup {O(<< <<k1, v1>>, <<k2, v2>> >>) :
            k1 \in {"?xml", "Foo"}, v1 \in {S(""), Obj(<< <<"@_version", S("1.0")>> >>)},
            k2 \in TopKeys \ {"?xml", "Foo"}, v2 \in TopValues}

\* ---- several candidate roots in one document
OtherRoot == LegacyRoot(S("John Doe"), U, U, U)

PriorityDocs ==
    {O(<< <<"INProfileResponse", v>>, <<"CreditReport", OtherRoot>> >>) :
        v \in {S(""), S("text"), SmallRoot}}
    \cup {O(<< <<k1, v>>, <<k2, OtherRoot>> >>) :
            k1 \in {"Report", "ExpCreditReport", "Foo"},
            k2 \in {"CreditReport", "CREDITREPORT", "XMLResponse"},
            v \in {S(""), N(0), SmallRoot}}
    \cup {O(<< <<"XMLResponse", v>>, <<"Zed", OtherRoot>> >>) :
            v \in {S("text"),
                   Obj(<< <<"CreditReport", S("")>>,
                          <<"Response", Obj(<< <<"CreditReport", SmallRoot>> >>)>> >>),
                   Obj(<< <<"Response", Obj(<< <<"CreditReport", N(0)>> >>)>> >>)}}

Docs ==
    AccountDocs \cup BasicDocs \cup HolderDocs \cup LegacyDocs \cup RootDocs
    \cup PriorityDocs

\* Inputs of the validator that are no parsed document
NonDocuments == {Null, S("text"), N(7), Ar(<<SmallRoot>>)}


(***************************************************************************)
(* The parser delivers a lone element as a bare node (arrayMode: false);   *)
(* WrapCollections is the same document with every collection field       *)
(* holding a sequence.                                                     *)
(***************************************************************************)
CollectionKeys ==
    {"CAIS_Account_DETAILS", "Accounts", "CreditAccounts", "AccountInfo",
     "TradeLines", "Enquiries", "CreditEnquiries", "InquiryInfo"}

RECURSIVE WrapCollections(_)
WrapCollections(x) ==
    IF x.t = "obj"
    THEN O([i \in 1..Len(x.p) |->
              <<x.p[i][1],
                IF x.p[i][1] \in CollectionKeys /\ ~IsArray(x.p[i][2])
                THEN Ar(<<WrapCollections(x.p[i][2])>>)
                ELSE WrapCollections(x.p[i][2])>>])
    ELSE IF x.t = "arr"
    THEN Ar([i \in 1..Len(x.e) |-> WrapCollections(x.e[i])])
    ELSE x

(***************************************************************************)
(* The state machine: a parsed document, the wall clock, and the calls of  *)
(* transform made so far, each with its document, its clock reading and    *)
(* its outcome.                                                            *)
(***************************************************************************)
Init ==
    /\ doc \in Docs
    /\ now = 0
    /\ results = << >>
    /\ checked = << >>
    /\ reqs = << >>
    /\ db = {}
    /\ cloud = {}
    /\ inv = << >>

\* Wall-clock time passes
Tick ==
    /\ now < MaxClock
    /\ now' = now + 1
    /\ UNCHANGED <<doc, results, checked, uploadVars, inv>>

\* A call of transformCreditReportData on the document
Transform ==
    /\ Len(results) < MaxCalls
    /\ results' = Append(results,
                         [doc |-> doc, at |-> now,
                          out |-> transformCreditReportData(doc, now)])
    /\ UNCHANGED <<doc, now, checked, uploadVars, inv>>

\* The same document is parsed with its lone elements as sequences
Reparse ==
    /\ Len(results) = 1
    /\ WrapCollections(doc) # doc
    /\ doc' = WrapCollections(doc)
    /\ UNCHANGED <<now, results, checked, uploadVars, inv>>

\* A call of validateExperianXml, on the document or on an input that is no
\* document
Validate ==
    /\ checked = << >>
    /\ \E x \in {doc} \cup NonDocuments :
          checked' = <<[input |-> x, out |-> validateExperianXml(x)]>>
    /\ UNCHANGED <<doc, now, results, uploadVars, inv>>

Next == Tick \/ Transform \/ Reparse

Spec == Init /\ [][Next]_vars

\* The validator applied on its own to a parsed document or to another value
ValidateNext == Validate

ValidateSpec == Init /\ [][ValidateNext]_vars


(***************************************************************************)
(* The upload pipeline (uploadReport).  A request is                       *)
(*   [pc, file, known, err, status, reportId, tmp]:                        *)
(* its position, the uploaded file (0: none), the id of the report that    *)
(* held the file's hash when the request arrived (0: none), the error it   *)
(* handed to the error handler, its response, and whether its local        *)
(* temporary file exists.  Requests yield at every await; the database is  *)
(* a set of reports [id, fileHash], the cloud storage a set of raw files   *)
(* [id, fileHash], each with the number of the request that made it.       *)
(***************************************************************************)
MaxRequests == 2

\* The files that clients upload: the parsed form of each content (U for an
\* empty file).  Distinct contents have distinct SHA-256 hashes; the hash of
\* a file is its index.
FileContents ==
    <<Profile(Applicant(S("John"), S("19900515")),
              Obj(<< <<"BureauScore", S("750")>> >>), U,
              Detail(S("10"), S("R"), S("11"), S("1000"), S("5000"), U), U),
      O(<< <<"Report", S("")>> >>),
      O(<< <<"Foo", S("x")>> >>),
      Profile(Applicant(S("John"), U), Obj(<< <<"BureauScore", S("5")>> >>), U, U, U),
      U>>

\* The id of the report that holds a hash (0: none)
PersistedWith(reports, fileHash) ==
    IF \E rep \in reports : rep.fileHash = fileHash
    THEN (CHOOSE rep \in reports : rep.fileHash = fileHash).id
    ELSE 0

NoError == [name |-> "", code |-> "", message |-> ""]

\* parseXmlFile: the parsed document, or the XMLParsingError thrown
parseXmlFile(content) ==
    IF content = U
    THEN [ok |-> FALSE,
          err |-> [name |-> "XMLParsingError", code |-> "",
                   message |-> "XML file is empty"]]
    ELSE [ok |-> TRUE, parsed |-> content]

\* CreditReport.findOne({ fileHash }): the id of a report, or 0, and the
\* same finding nothing
findOneNothing(reports, fileHash) == 0

findOne(reports, fileHash) ==
    IF \E rep \in reports : rep.fileHash = fileHash
    THEN (CHOOSE rep \in reports : rep.fileHash = fileHash).id
    ELSE 0

\* Schema validation on save: the score range and the two enumerations
typeEnum ==
    {"Secured", "Unsecured", "Credit Card", "Credit Card (Revolving)",
     "Personal Loan", "Personal Loan (Installment)", "Home Loan", "Auto Loan",
     "Business Loan", "Gold Loan", "Loan Against Property", "Two Wheeler Loan",
     "Other Loan", "Loan", "Other"}

statusEnum ==
    {"Active", "Active - Regular", "Active - Irregular", "Closed",
     "Closed - Regular", "Closed - Irregular", "Settled", "Written Off",
     "Restructured", "Wilful Default", "Sub-standard", "Doubtful", "Loss"}

schemaAccepts(data) ==
    /\ data.basicDetails.creditScore.t = "num"
         => (data.basicDetails.creditScore.n >= 300
             /\ data.basicDetails.creditScore.n <= 900)
    /\ \A i \in DOMAIN data.creditAccounts :
         /\ data.creditAccounts[i].type \in typeEnum
         /\ data.creditAccounts[i].status \in statusEnum

\* creditReport.save(): the error it throws, or NoError.  The index on
\* fileHash is unique.
saveError(reports, fileHash, data) ==
    IF ~schemaAccepts(data)
    THEN [name |-> "ValidationError", code |-> "", message |-> "Validation failed"]
    ELSE IF \E rep \in reports : rep.fileHash = fileHash
    THEN [name |-> "MongoServerError", code |-> "11000",
          message |-> "E11000 duplicate key error"]
    ELSE NoError

\* errorHandler: the status of the response.  Each test of the handler
\* overwrites the result of the tests before it.
errorHandler(err) ==
    IF err.code \in {"INVALID_FILE_TYPE", "INVALID_MIME_TYPE"} THEN 422
    ELSE IF Includes(err.message, "Cloudinary") THEN 500
    ELSE IF err.name = "XMLParsingError" THEN 422
    ELSE IF err.name = "ValidationError" THEN 400
    ELSE IF err.code = "11000" THEN 400
    ELSE IF err.name = "CastError" THEN 404
    ELSE 500

\* return res.status(...) / next(error): the request ends, its temporary
\* file removed
Answered(req, status, reportId) ==
    [req EXCEPT !.pc = "done", !.status = status, !.reportId = reportId,
                !.tmp = FALSE]

Failed(req, err) ==
    [req EXCEPT !.pc = "done", !.err = err, !.status = errorHandler(err),
                !.tmp = FALSE]

UploadInit ==
    /\ doc = FileContents[1]
    /\ now = 0
    /\ results = << >>
    /\ checked = << >>
    /\ reqs = << >>
    /\ db = {}
    /\ cloud = {}
    /\ inv = << >>

\* A request arrives, with a file stored by the upload middleware or without
\* one; its content is read and hashed
Receive ==
    /\ Len(reqs) < MaxRequests
    /\ \E f \in {0} \cup DOMAIN FileContents :
         reqs' = Append(reqs,
                        IF f = 0
                        THEN [pc |-> "done", file |-> 0, known |-> 0, err |-> NoError,
                              status |-> 400, reportId |-> 0, tmp |-> FALSE]
                        ELSE [pc |-> "find", file |-> f, known |-> PersistedWith(db, f),
                              err |-> NoError, status |-> 0, reportId |-> 0,
                              tmp |-> TRUE])
    /\ UNCHANGED <<doc, now, results, checked, db, cloud, inv>>

\* The duplicate check
FindOne(r) ==
    /\ r \in DOMAIN reqs
    /\ reqs[r].pc = "find"
    /\ reqs' = [reqs EXCEPT ![r] =
                  IF findOne(db, reqs[r].file) # 0
                  THEN Answered(reqs[r], 409, findOne(db, reqs[r].file))
                  ELSE [reqs[r] EXCEPT !.pc = "parse"]]
    /\ UNCHANGED <<doc, now, results, checked, db, cloud, inv>>

\* The file is parsed and the parsed document validated
ParseAndValidate(r) ==
    /\ r \in DOMAIN reqs
    /\ reqs[r].pc = "parse"
    /\ reqs' = [reqs EXCEPT ![r] =
                  IF ~parseXmlFile(FileContents[reqs[r].file]).ok
                  THEN Failed(reqs[r], parseXmlFile(FileContents[reqs[r].file]).err)
                  ELSE IF ~validateExperianXml(
                               parseXmlFile(FileContents[reqs[r].file]).parsed)
                  THEN Answered(reqs[r], 422, 0)
                  ELSE [reqs[r] EXCEPT !.pc = "upload"]]
    /\ UNCHANGED <<doc, now, results, checked, db, cloud, inv>>

\* uploadXmlFile: the raw file reaches the cloud storage, or the upload fails
UploadXml(r) ==
    /\ r \in DOMAIN reqs
    /\ reqs[r].pc = "upload"
    /\ \E stored \in BOOLEAN :
         IF stored
         THEN /\ cloud' = cloud \cup {[id |-> r, fileHash |-> reqs[r].file]}
              /\ reqs' = [reqs EXCEPT ![r].pc = "transform"]
         ELSE /\ cloud' = cloud
              /\ reqs' = [reqs EXCEPT ![r] =
                            Failed(reqs[r],
                                   [name |-> "Error", code |-> "",
                                    message |-> "Cloudinary upload failed"])]
    /\ UNCHANGED <<doc, now, results, checked, db, inv>>

\* transformCreditReportData on the parsed document, then the report is
\* built and handed to save
TransformData(r) ==
    /\ r \in DOMAIN reqs
    /\ reqs[r].pc = "transform"
    /\ reqs' = [reqs EXCEPT ![r] =
                  IF transformCreditReportData(FileContents[reqs[r].file], now).ok
                  THEN [reqs[r] EXCEPT !.pc = "save"]
                  ELSE Failed(reqs[r],
                              [name |-> "Error", code |-> "",
                               message |->
                                   transformCreditReportData(
                                       FileContents[reqs[r].file], now).message])]
    /\ UNCHANGED <<doc, now, results, checked, db, cloud, inv>>

\* creditReport.save(), and the 201 response
Save(r) ==
    /\ r \in DOMAIN reqs
    /\ reqs[r].pc = "save"
    /\ IF saveError(db, reqs[r].file,
                    transformCreditReportData(FileContents[reqs[r].file], now))
          = NoError
       THEN /\ db' = db \cup {[id |-> r, fileHash |-> reqs[r].file]}
            /\ reqs' = [reqs EXCEPT ![r] = Answered(reqs[r], 201, r)]
       ELSE /\ db' = db
            /\ reqs' = [reqs EXCEPT ![r] =
                          Failed(reqs[r],
                                 saveError(db, reqs[r].file,
                                           transformCreditReportData(
                                               FileContents[reqs[r].file], now)))]
    /\ UNCHANGED <<doc, now, results, checked, cloud, inv>>

UploadNext ==
    \/ Receive
    \/ \E r \in 1..MaxRequests : FindOne(r)
    \/ \E r \in 1..MaxRequests : ParseAndValidate(r)
    \/ \E r \in 1..MaxRequests : UploadXml(r)
    \/ \E r \in 1..MaxRequests : TransformData(r)
    \/ \E r \in 1..MaxRequests : Save(r)

UploadSpec == UploadInit /\ [][UploadNext]_vars

(***************************************************************************)
(* extractText applied on its own to a node: any node of a parsed          *)
(* document, a node that is not there, or a text-content node.             *)
(***************************************************************************)
RECURSIVE SubNodes(_)
SubNodes(x) ==
    {x} \cup (IF x.t = "obj" THEN UNION {SubNodes(x.p[i][2]) : i \in 1..Len(x.p)}
              ELSE IF x.t = "arr" THEN UNION {SubNodes(x.e[i]) : i \in 1..Len(x.e)}
              ELSE {})

TextNodes ==
    {U, Null, S("  padded  "), N(0), N(-12), B(TRUE), B(FALSE),
     Obj(<< <<"#text", S(" 750 ")>>, <<"@_unit", S("pts")>> >>),
     Obj(<< <<"#text", N(0)>>, <<"@_unit", S("pts")>> >>),
     Obj(<< <<"#text", S("")>>, <<"@_unit", S("pts")>> >>),
     Obj(<< <<"#text", B(FALSE)>> >>),
     Obj(<< <<"#text", N(42)>> >>),
     Obj(<< <<"count", N(3)>>, <<"first", S(" a ")>>, <<"second", S("b")>> >>),
     Obj(<< <<"count", N(3)>>, <<"inner", Obj(<< <<"x", S("y")>> >>)>> >>),
     Ar(<<S("a"), S("b")>>)}

ExtractText ==
    /\ checked = << >>
    /\ \E node \in SubNodes(doc) \cup TextNodes :
          checked' = <<[input |-> node, out |-> extractText(node)]>>
    /\ UNCHANGED <<doc, now, results, uploadVars, inv>>

TextNext == ExtractText

TextSpec == Init /\ [][TextNext]_vars

(***************************************************************************)
(* Invocations of transformCreditReportData in flight together.  Each      *)
(* invocation holds its argument and its locals (reportRoot, the four      *)
(* extracted groups, the tables its account mapping allocates); the steps  *)
(* of different invocations interleave, and the wall clock is shared.      *)
(***************************************************************************)
MaxInvocations == 2

ConcDocs ==
    {O(<< >>),
     Profile(U, U, U, Detail(S("10"), S("R"), S("11"), S("300"), U, U),
             Obj(<< <<"CAPS_Summary",
                      Obj(<< <<"CAPSLast90Days", S("2")>> >>)>> >>)),
     Obj(<< <<"CreditReport",
              LegacyRoot(S("Jane Roe"),
                         Obj(<< <<"Type", S("Secured Loan")>>,
                                <<"Status", S("Active")>>,
                                <<"CurrentBalance", S("400")>> >>),
                         Obj(<< <<"Institution", S("Old Bank")>> >>), U)>> >>)}

\* The argument of another invocation, as a module-level variable would hold it
parsedXmlShared(invs, i) == invs[1].doc

\* The argument of an invocation
parsedXmlOf(invs, i) == invs[i].doc

Thrown(invocation, message) ==
    [invocation EXCEPT !.pc = "done", !.out = [ok |-> FALSE, message |-> message]]

\* Whether another invocation is between its first and its last step
Overlaps(invs, i) ==
    \E j \in DOMAIN invs : j # i /\ invs[j].pc \notin {"root", "done"}

Stepped(invs, i, next) ==
    /\ inv' = [invs EXCEPT ![i] = [next EXCEPT !.overlap = @ \/ Overlaps(invs, i)]]
    /\ UNCHANGED <<doc, now, results, checked, uploadVars>>

ConcInit ==
    /\ doc = O(<< >>)
    /\ now = 0
    /\ results = << >>
    /\ checked = << >>
    /\ reqs = << >>
    /\ db = {}
    /\ cloud = {}
    /\ inv = << >>

\* transformCreditReportData is entered
Invoke ==
    /\ Len(inv) < MaxInvocations
    /\ \E d \in ConcDocs :
         inv' = Append(inv, [doc |-> d, pc |-> "root", reportRoot |-> U,
                             basicDetails |-> U, reportSummary |-> U,
                             creditAccounts |-> U, enquiries |-> U,
                             tables |-> << >>, enqAt |-> 0, overlap |-> FALSE,
                             out |-> U])
    /\ UNCHANGED <<doc, now, results, checked, uploadVars>>

\* const reportRoot = findReportRoot(parsedXml), and the throw without a root
FindRoot(i) ==
    /\ i \in DOMAIN inv
    /\ inv[i].pc = "root"
    /\ Stepped(inv, i,
               IF Nullish(parsedXmlOf(inv, i)) THEN Thrown(inv[i], OtherFailure)
               ELSE IF ~Truthy(findReportRoot(parsedXmlOf(inv, i)))
               THEN Thrown(inv[i], RootNotFound)
               ELSE [inv[i] EXCEPT !.pc = "basic",
                                   !.reportRoot = findReportRoot(parsedXmlOf(inv, i))])

\* The outcome of an extraction step: the step threw, or its group is kept
Extracted(invocation, group, next) ==
    IF group = TypeError THEN Thrown(invocation, OtherFailure)
    ELSE [invocation EXCEPT !.pc = next]

BasicDetails(i) ==
    /\ i \in DOMAIN inv
    /\ inv[i].pc = "basic"
    /\ Stepped(inv, i,
               Extracted([inv[i] EXCEPT
                             !.basicDetails = extractBasicDetails(inv[i].reportRoot)],
                         extractBasicDetails(inv[i].reportRoot), "summary"))

ReportSummary(i) ==
    /\ i \in DOMAIN inv
    /\ inv[i].pc = "summary"
    /\ Stepped(inv, i,
               Extracted([inv[i] EXCEPT
                             !.reportSummary = extractReportSummary(inv[i].reportRoot)],
                         extractReportSummary(inv[i].reportRoot), "accounts"))

\* extractCreditAccounts; the mapping closures allocate their tables anew
CreditAccounts(i) ==
    /\ i \in DOMAIN inv
    /\ inv[i].pc = "accounts"
    /\ Stepped(inv, i,
               Extracted([inv[i] EXCEPT
                             !.creditAccounts = extractCreditAccounts(inv[i].reportRoot),
                             !.tables = <<typeMap, statusMap>>],
                         extractCreditAccounts(inv[i].reportRoot), "enquiries"))

\* extractEnquiries, which reads the wall clock
Enquiries(i) ==
    /\ i \in DOMAIN inv
    /\ inv[i].pc = "enquiries"
    /\ Stepped(inv, i,
               Extracted([inv[i] EXCEPT
                             !.enquiries = extractEnquiries(inv[i].reportRoot, now),
                             !.enqAt = now],
                         extractEnquiries(inv[i].reportRoot, now), "return"))

\* The groups are assembled and returned
Return(i) ==
    /\ i \in DOMAIN inv
    /\ inv[i].pc = "return"
    /\ Stepped(inv, i,
               [inv[i] EXCEPT
                   !.pc = "done",
                   !.out = TransformedData(inv[i].basicDetails, inv[i].reportSummary,
                                           inv[i].creditAccounts, inv[i].enquiries,
                                           now)])

ConcTick ==
    /\ now < MaxClock
    /\ now' = now + 1
    /\ UNCHANGED <<doc, results, checked, uploadVars, inv>>

ConcNext ==
    \/ ConcTick
    \/ Invoke
    \/ \E i \in 1..MaxInvocations : FindRoot(i)
    \/ \E i \in 1..MaxInvocations : BasicDetails(i)
    \/ \E i \in 1..MaxInvocations : ReportSummary(i)
    \/ \E i \in 1..MaxInvocations : CreditAccounts(i)
    \/ \E i \in 1..MaxInvocations : Enquiries(i)
    \/ \E i \in 1..MaxInvocations : Return(i)

ConcSpec == ConcInit /\ [][ConcNext]_vars

(***************************************************************************)
(* Reading a document: the parts the properties speak of.                  *)
(***************************************************************************)
Calls == DOMAIN results

RootOf(d) == findReportRoot(d)

ApplicantOf(root) ==
    Lookup(Lookup(Lookup(root, "Current_Application"), "Current_Application_Details"),
           "Current_Applicant_Details")

DetailsOf(root) == Lookup(Lookup(root, "CAIS_Account"), "CAIS_Account_DETAILS")

\* The account-detail records of a document, in order
RecordsOf(root) == IF Truthy(DetailsOf(root)) THEN AsArray(DetailsOf(root)) ELSE << >>

HolderOf(root) ==
    IF Len(RecordsOf(root)) = 0 THEN U
    ELSE Lookup(RecordsOf(root)[1], "CAIS_Holder_Details")

CountersOf(root) ==
    Lookup(Lookup(Lookup(root, "CAIS_Account"), "CAIS_Summary"), "Credit_Account")

Caps90Of(root) ==
    extractNumber(Lookup(Lookup(Lookup(root, "CAPS"), "CAPS_Summary"), "CAPSLast90Days"))

\* The code of a field: its text
CodeOf(node, key) == extractText(Lookup(node, key))

RootIndicators ==
    {"INProfileResponse", "CreditReport", "CREDITREPORT", "ExpCreditReport",
     "Report", "XMLResponse"}

NoIndicatorKey(d) ==
    \A i \in 1..Len(Keys(d)) : \A ind \in RootIndicators : ~Includes(Keys(d)[i], ind)

NoObjectValue(d) == \A i \in 1..Len(Keys(d)) : ~IsObjectType(d.p[i][2])

RootNotFoundError == [ok |-> FALSE, message |-> RootNotFound]

\* The blocks and collections the transformer reads under the root
KnownBlocks ==
    {"Current_Application", "SCORE", "CAIS_Account", "CAPS", "PersonalInfo",
     "PersonalInformation", "ApplicantInfo", "Consumer", "Header", "Accounts",
     "CreditAccounts", "AccountInfo", "TradeLines", "Enquiries", "CreditEnquiries",
     "InquiryInfo"}

EmptyBasicDetails ==
    [name |-> S(""), mobilePhone |-> U, pan |-> U, email |-> U, dateOfBirth |-> U,
     gender |-> U, address |-> U, creditScore |-> U]

ZeroSummary ==
    [totalAccounts |-> 0, activeAccounts |-> 0, closedAccounts |-> 0,
     currentBalanceAmount |-> 0, securedAmount |-> 0, unsecuredAmount |-> 0,
     recentEnquiries |-> 0]

(***************************************************************************)
(* Properties.                                                             *)
(***************************************************************************)

\* C1: transform throws only when no report root can be located: every call
\* on a document with a located root returns a report, whatever is missing
\* or malformed under the root, and with none of the known blocks under the
\* root the four groups are their empty/zero forms.
C1_ThrowsOnlyWithoutRoot ==
    \A i \in Calls :
        LET r == results[i]
            root == RootOf(r.doc)
        IN  Truthy(root) =>
              /\ r.out.ok
              /\ (\A k \in KnownBlocks : Lookup(root, k) = U) =>
                    /\ r.out.basicDetails = EmptyBasicDetails
                    /\ r.out.reportSummary = ZeroSummary
                    /\ r.out.creditAccounts = << >>
                    /\ r.out.enquiries = << >>

\* A call on a document whose root is located and holds a malformed block
\* (an empty CAPS summary element) has returned a report.
C1_Witness ==
    \E i \in Calls :
        /\ results[i].out.ok
        /\ Lookup(Lookup(RootOf(results[i].doc), "CAPS"), "CAPS_Summary") = S("")

\* C2 (as claimed): a document none of whose top-level keys contains a root
\* indicator fails with the root-not-found error.
C2_NoIndicatorFails ==
    \A i \in Calls :
        NoIndicatorKey(results[i].doc) => results[i].out = RootNotFoundError

\* C2 (amended): a document none of whose top-level keys contains a root
\* indicator and none of whose top-level values is an object or a sequence
\* fails with the root-not-found error.
C2_NoIndicatorNoObjectFails ==
    \A i \in Calls :
        NoIndicatorKey(results[i].doc) /\ NoObjectValue(results[i].doc)
            => results[i].out = RootNotFoundError

\* A call on a document with an unrecognised key holding a text has failed.
C2_Witness ==
    \E i \in Calls :
        /\ NoIndicatorKey(results[i].doc) /\ NoObjectValue(results[i].doc)
        /\ Len(Keys(results[i].doc)) > 0
        /\ Truthy(results[i].doc.p[1][2])
        /\ results[i].out = RootNotFoundError

\* C3: a collection field holding a bare node N gives the same creditAccounts
\* and enquiries as the same document with the field holding [N].
C3_SingularPluralEquivalence ==
    \A i, j \in Calls :
        (/\ results[j].doc = WrapCollections(results[i].doc)
         /\ results[i].out.ok /\ results[j].out.ok)
        => /\ results[i].out.creditAccounts = results[j].out.creditAccounts
           /\ results[i].at = results[j].at
                => results[i].out.enquiries = results[j].out.enquiries

NoDate(enquiry) ==
    [institution |-> enquiry.institution, amount |-> enquiry.amount,
     purpose |-> enquiry.purpose]

\* C4 (as claimed): two calls on the same document give identical
\* basicDetails, reportSummary, creditAccounts and enquiries.
C4_SameDocSameGroups ==
    \A i, j \in Calls :
        (results[i].doc = results[j].doc /\ results[i].out.ok /\ results[j].out.ok)
        => /\ results[i].out.basicDetails = results[j].out.basicDetails
           /\ results[i].out.reportSummary = results[j].out.reportSummary
           /\ results[i].out.creditAccounts = results[j].out.creditAccounts
           /\ results[i].out.enquiries = results[j].out.enquiries

\* C4 (amended): two calls on the same document give identical basicDetails,
\* reportSummary and creditAccounts, and enquiries that are identical but for
\* the date of the enquiry synthesised from a positive 90-day counter, which
\* is the time of its call.
C4_SameDocSameGroupsButSyntheticDate ==
    \A i, j \in Calls :
        (results[i].doc = results[j].doc /\ results[i].out.ok /\ results[j].out.ok)
        => LET a == results[i].out
               b == results[j].out
           IN  /\ a.basicDetails = b.basicDetails
               /\ a.reportSummary = b.reportSummary
               /\ a.creditAccounts = b.creditAccounts
               /\ Len(a.enquiries) = Len(b.enquiries)
               /\ \A k \in DOMAIN a.enquiries :
                    /\ NoDate(a.enquiries[k]) = NoDate(b.enquiries[k])
                    /\ \/ a.enquiries[k].date = b.enquiries[k].date
                       \/ /\ Caps90Of(RootOf(results[i].doc)) > 0
                          /\ a.enquiries[k].date = DateNow(results[i].at)
                          /\ b.enquiries[k].date = DateNow(results[j].at)

\* Two calls on one document at different times, each with a synthesised
\* enquiry.
C4_Witness ==
    \E i, j \in Calls :
        /\ results[i].doc = results[j].doc
        /\ results[i].at # results[j].at
        /\ results[i].out.ok /\ results[j].out.ok
        /\ Len(results[i].out.enquiries) = 1
        /\ results[i].out.enquiries[1].institution = "Various Institutions"


\* The date-of-birth codes of a document: the applicant block's and the
\* account-holder block's
ApplicantDobCode(root) == CodeOf(ApplicantOf(root), "Date_Of_Birth_Applicant")

HolderDobCode(root) == CodeOf(HolderOf(root), "Date_of_birth")

DateKeys == <<"Open_Date", "Date_Closed", "Date_Reported">>

DatesOf(account) == <<account.dateOpened, account.dateClosed, account.lastReported>>

\* C5: a YYYYMMDD-coded date field is absent whenever its code is not exactly
\* 8 characters long: the date of birth when neither date-of-birth code has 8
\* characters, and each account date whose own code has not.
C5_NotEightCharsAbsent ==
    \A i \in Calls :
        LET r == results[i]
            root == RootOf(r.doc)
        IN  r.out.ok =>
              /\ (Len(ApplicantDobCode(root)) # 8 /\ Len(HolderDobCode(root)) # 8)
                    => r.out.basicDetails.dateOfBirth = U
              /\ \A k \in DOMAIN RecordsOf(root) : \A f \in 1..3 :
                    Len(CodeOf(RecordsOf(root)[k], DateKeys[f])) # 8
                        => DatesOf(r.out.creditAccounts[k])[f] = Null

IsSentinel(code) == code = "00010201" \/ Substring(code, 0, 4) = "0001"

\* C6: dateOfBirth is absent whenever the code that would supply it is the
\* sentinel 00010201 or begins with year 0001: each of the applicant code
\* and the holder code being such a code, or not there.
C6_SentinelAbsent ==
    \A i \in Calls :
        LET r == results[i]
            root == RootOf(r.doc)
            pc == ApplicantDobCode(root)
            hc == HolderDobCode(root)
        IN  (r.out.ok /\ (pc = "" \/ IsSentinel(pc)) /\ (hc = "" \/ IsSentinel(hc)))
                => r.out.basicDetails.dateOfBirth = U

\* The fixed tables of the specification
TypeLabel(code) ==
    CASE code = "10" -> "Credit Card"
      [] code = "51" \/ code = "52" -> "Personal Loan"
      [] code = "53" -> "Auto Loan"
      [] code = "61" -> "Housing Loan"
      [] code = "71" -> "Gold Loan"
      [] code = "81" -> "Two Wheeler Loan"
      [] OTHER -> "Other"

PortfolioQualifier(portfolio) ==
    CASE portfolio = "R" -> " (Revolving)"
      [] portfolio = "I" -> " (Installment)"
      [] OTHER -> ""

StatusLabel(code) ==
    CASE code \in {"11", "12"} -> "Active - Regular"
      [] code \in {"13", "14"} -> "Closed - Regular"
      [] code \in {"21", "22", "31", "32", "41", "42", "51", "52", "53", "71"}
            -> "Active - Irregular"
      [] code \in {"78", "80", "82", "83", "84"} -> "Settled"
      [] code = "89" -> "Closed"
      [] OTHER -> "Status " \o code

BureauScoreOf(root) == extractNumber(Lookup(Lookup(root, "SCORE"), "BureauScore"))

\* C10: creditScore is absent or strictly greater than 0; a bureau score of
\* zero or below gives an absent creditScore and a positive one is passed
\* through unchanged.
C10_ScoreFiltering ==
    \A i \in Calls :
        LET r == results[i]
            root == RootOf(r.doc)
            cs == r.out.basicDetails.creditScore
        IN  r.out.ok =>
              /\ Nullish(cs) \/ (cs.t = "num" /\ cs.n > 0)
              /\ Truthy(Lookup(root, "SCORE")) =>
                    IF BureauScoreOf(root) > 0 THEN cs = N(BureauScoreOf(root))
                    ELSE Nullish(cs)

\* A negative bureau score has been filtered out.
C10_Witness ==
    \E i \in Calls :
        LET r == results[i]
            root == RootOf(r.doc)
        IN  /\ r.out.ok
            /\ Truthy(Lookup(root, "SCORE"))
            /\ BureauScoreOf(root) < 0
            /\ r.out.basicDetails.creditScore = Null

\* The CAPS counters of a document, and its legacy enquiry collection
CapsCount(root, key) ==
    extractNumber(Lookup(Lookup(Lookup(root, "CAPS"), "CAPS_Summary"), key))

LegacyEnquiriesIn(root) == findValueFromPaths(root, enquiriesPaths)

\* C11: whenever the CAPS 90-day counter is positive, enquiries is exactly
\* one entry: institution 'Various Institutions', amount 0, the time of the
\* call as its date, and the purpose text made of the 90-, 30- and 7-day
\* counts, whatever legacy enquiry collection the document holds.
C11_EnquirySynthesis ==
    \A i \in Calls :
        LET r == results[i]
            root == RootOf(r.doc)
        IN  (r.out.ok /\ CapsCount(root, "CAPSLast90Days") > 0) =>
              r.out.enquiries =
                <<[institution |-> "Various Institutions",
                   date |-> DateNow(r.at),
                   amount |-> 0,
                   purpose |->
                       ToString(CapsCount(root, "CAPSLast90Days"))
                       \o " enquiries in last 90 days ("
                       \o ToString(CapsCount(root, "CAPSLast30Days"))
                       \o " in last 30 days, "
                       \o ToString(CapsCount(root, "CAPSLast7Days"))
                       \o " in last 7 days)"]>>

\* A document with a positive 90-day counter and a legacy collection of two
\* enquiries has given one entry.
C11_Witness ==
    \E i \in Calls :
        LET r == results[i]
            root == RootOf(r.doc)
        IN  /\ r.out.ok
            /\ CapsCount(root, "CAPSLast90Days") = 2
            /\ IsArray(LegacyEnquiriesIn(root))
            /\ Len(LegacyEnquiriesIn(root).e) = 2
            /\ Len(r.out.enquiries) = 1
            /\ r.out.enquiries[1].purpose
                 = "2 enquiries in last 90 days (1 in last 30 days, 0 in last 7 days)"

\* The validator's verdicts, and the words of its contract
Checks == {checked[i] : i \in DOMAIN checked}

IsObjectInput(x) == x.t \in {"obj", "arr"}

HasFragmentKey(x) ==
    \E i \in DOMAIN ObjectKeys(x) : \E ind \in RootIndicators :
        Includes(ToLower(ObjectKeys(x)[i]), ToLower(ind))

PrimarySections == {"Header", "CAIS_Account", "Current_Application"}

IsPresent(x, key) == Lookup(x, key) # U

IsNonEmpty(x, key) == Truthy(Lookup(x, key))

\* C12 (as claimed): validateSchema returns true exactly when the input is an
\* object, some top-level key contains a root fragment (letter case apart)
\* and, if INProfileResponse is present, one of Header, CAIS_Account and
\* Current_Application is present in it.
C12_ValidateSchema ==
    \A c \in Checks :
        c.out = (/\ IsObjectInput(c.input)
                 /\ HasFragmentKey(c.input)
                 /\ IsPresent(c.input, "INProfileResponse")
                      => \E sec \in PrimarySections :
                           IsPresent(Lookup(c.input, "INProfileResponse"), sec))

\* C12 (amended): the same with "present" read as holding a non-empty value:
\* if INProfileResponse holds a non-empty value, one of the three sections
\* holds a non-empty value.
C12_ValidateSchemaNonEmpty ==
    \A c \in Checks :
        c.out = (/\ IsObjectInput(c.input)
                 /\ HasFragmentKey(c.input)
                 /\ IsNonEmpty(c.input, "INProfileResponse")
                      => \E sec \in PrimarySections :
                           IsNonEmpty(Lookup(c.input, "INProfileResponse"), sec))

\* A document whose only key is written in lower case has been accepted, and
\* so has one whose INProfileResponse element is empty.
C12_Witness ==
    \E c \in Checks :
        /\ c.out
        /\ \/ IsPresent(c.input, "creditreport")
           \/ Lookup(c.input, "INProfileResponse") = S("")

\* The requests that have been answered
Ended == {r \in DOMAIN reqs : reqs[r].pc = "done"}

\* The request ended because transform threw
TransformThrew(r) ==
    Len(reqs[r].err.message) >= 27
    /\ SubSeq(reqs[r].err.message, 1, 27) = "Data transformation failed:"

\* C13: an upload whose transform fails because no report root is located is
\* answered with a 4xx status, never a 5xx one.
C13_RootNotFoundIs4xx ==
    \A r \in Ended :
        reqs[r].err.message = RootNotFound => reqs[r].status \in 400..499

\* C14: after a request whose transform failed has ended, the database holds
\* no report of that request and the cloud storage no raw file of it.
C14_TransformFailureLeavesNothing ==
    \A r \in Ended :
        TransformThrew(r) =>
            /\ \A rep \in db : rep.id # r
            /\ \A raw \in cloud : raw.id # r

GroupsOf(out) ==
    IF out.ok
    THEN <<out.basicDetails, out.reportSummary, out.creditAccounts, out.enquiries>>
    ELSE <<out.message>>

Returned == {i \in DOMAIN inv : inv[i].pc = "done"}

\* What a call alone gives, for every document and reading of the clock
Alone ==
    [d \in ConcDocs |->
        [clock \in 0..MaxClock |-> GroupsOf(transformCreditReportData(d, clock))]]

CandidatePaths ==
    <<"INProfileResponse", "CreditReport", "CREDITREPORT", "ExpCreditReport",
      "Report", "XMLResponse.CreditReport", "XMLResponse.Response.CreditReport">>

CandidateValue(d, n) ==
    IF n = 1 THEN Lookup(d, CandidatePaths[1]) ELSE getNestedValue(d, CandidatePaths[n])

PresentCandidates(d) == {n \in DOMAIN CandidatePaths : CandidateValue(d, n) # U}

NonEmptyCandidates(d) == {n \in DOMAIN CandidatePaths : Truthy(CandidateValue(d, n))}

ObjectProperties(d) == {i \in 1..Len(Keys(d)) : IsObjectType(d.p[i][2])}

Least(set) == CHOOSE n \in set : \A m \in set : n <= m

\* The root the priority search names, with `candidates` the candidates that
\* count as found
RootByPriority(d, candidates) ==
    IF candidates # {} THEN CandidateValue(d, Least(candidates))
    ELSE IF ObjectProperties(d) # {} THEN d.p[Least(ObjectProperties(d))][2]
    ELSE Null

\* C17: root location picks the root by priority, first match wins: the
\* INProfileResponse property when present, otherwise the first of the six
\* candidate paths that resolves to a value, otherwise the first property
\* whose value is an object; a lower-priority candidate is never chosen
\* when a higher-priority one is present
C17_RootPriority ==
    \A k \in Calls :
        findReportRoot(results[k].doc)
            = RootByPriority(results[k].doc, PresentCandidates(results[k].doc))

\* C17 with a candidate counting as found when it holds a non-empty (truthy)
\* value: an empty or zero candidate is passed over
C17_RootPriorityNonEmpty ==
    \A k \in Calls :
        findReportRoot(results[k].doc)
            = RootByPriority(results[k].doc, NonEmptyCandidates(results[k].doc))

\* A call on a document whose primary root or first fallback candidate is
\* present and empty, and whose root is a later candidate
C17_Witness ==
    \E k \in Calls :
        /\ PresentCandidates(results[k].doc) # NonEmptyCandidates(results[k].doc)
        /\ NonEmptyCandidates(results[k].doc) # {}
        /\ Least(PresentCandidates(results[k].doc))
               < Least(NonEmptyCandidates(results[k].doc))
        /\ findReportRoot(results[k].doc) = OtherRoot

\* The current balance of an account-detail record, and its portfolio type
BalanceIn(record) == extractNumber(Lookup(record, "Current_Balance"))

PortfolioIn(record) == CodeOf(record, "Portfolio_Type")

\* The summary is recomputed from the records: there are records, and the
\* summary's account counters are absent or total 0
Recomputed(root) ==
    /\ Len(RecordsOf(root)) > 0
    /\ \/ CountersOf(root) = U
       \/ extractNumber(Lookup(CountersOf(root), "CreditAccountTotal")) = 0

\* C18: whenever the summary is recomputed from the account records,
\* currentBalanceAmount is the sum of the records' current balances,
\* unsecuredAmount the sum over the records of portfolio type R,
\* securedAmount the sum over all other records, and so securedAmount +
\* unsecuredAmount = currentBalanceAmount, also when the CAIS summary carries
\* an outstanding-balance block
C18_RecountBalances ==
    \A k \in Calls :
        (results[k].out.ok /\ Recomputed(RootOf(results[k].doc))) =>
            /\ results[k].out.reportSummary.currentBalanceAmount
                 = SumSeq([n \in DOMAIN RecordsOf(RootOf(results[k].doc)) |->
                             BalanceIn(RecordsOf(RootOf(results[k].doc))[n])])
            /\ results[k].out.reportSummary.unsecuredAmount
                 = SumSeq([n \in DOMAIN RecordsOf(RootOf(results[k].doc)) |->
                             IF PortfolioIn(RecordsOf(RootOf(results[k].doc))[n]) = "R"
                             THEN BalanceIn(RecordsOf(RootOf(results[k].doc))[n])
                             ELSE 0])
            /\ results[k].out.reportSummary.securedAmount
                 = SumSeq([n \in DOMAIN RecordsOf(RootOf(results[k].doc)) |->
                             IF PortfolioIn(RecordsOf(RootOf(results[k].doc))[n]) = "R"
                             THEN 0
                             ELSE BalanceIn(RecordsOf(RootOf(results[k].doc))[n])])
            /\ results[k].out.reportSummary.securedAmount
                 + results[k].out.reportSummary.unsecuredAmount
                 = results[k].out.reportSummary.currentBalanceAmount

\* The last-90-days counter of the CAPS summary, as the document holds it
Caps90NodeOf(root) ==
    Lookup(Lookup(Lookup(root, "CAPS"), "CAPS_Summary"), "CAPSLast90Days")

\* C19: whenever the document has a CAPS last-90-days counter,
\* recentEnquiries is that counter's value, whatever legacy enquiry
\* collections the document also holds; the count of legacy entries is
\* used only when the counter is absent
C19_RecentEnquiriesFromCounter ==
    \A k \in Calls :
        (results[k].out.ok /\ Caps90NodeOf(RootOf(results[k].doc)) # U) =>
            results[k].out.reportSummary.recentEnquiries
                = extractNumber(Caps90NodeOf(RootOf(results[k].doc)))

\* C20: every field of reportSummary is non-negative, whatever counter and
\* balance values the document carries
C20_SummaryNonNegative ==
    \A k \in Calls :
        results[k].out.ok =>
            /\ results[k].out.reportSummary.totalAccounts >= 0
            /\ results[k].out.reportSummary.activeAccounts >= 0
            /\ results[k].out.reportSummary.closedAccounts >= 0
            /\ results[k].out.reportSummary.recentEnquiries >= 0
            /\ results[k].out.reportSummary.currentBalanceAmount >= 0
            /\ results[k].out.reportSummary.securedAmount >= 0
            /\ results[k].out.reportSummary.unsecuredAmount >= 0

\* The document with the value at a path of keys replaced (removed with U)
RECURSIVE SetPath(_, _, _)
SetPath(x, keys, v) ==
    IF keys = << >> THEN v
    ELSE Obj([i \in 1..Len(x.p) |->
                IF x.p[i][1] = Head(keys)
                THEN <<x.p[i][1], SetPath(x.p[i][2], Tail(keys), v)>>
                ELSE x.p[i]])

DetailsPath == <<"INProfileResponse", "CAIS_Account", "CAIS_Account_DETAILS">>

\* A document of the primary format with account-detail records
HasDetails(d) ==
    /\ Truthy(Lookup(d, "INProfileResponse"))
    /\ Len(RecordsOf(RootOf(d))) > 0

\* The same document without its account-detail records, and with its first
\* record alone
WithoutDetails(d) == SetPath(d, DetailsPath, U)

FirstRecordOnly(d) == SetPath(d, DetailsPath, RecordsOf(RootOf(d))[1])

\* What transform gives for the basic details of a document
BasicDetailsOf(d) == extractBasicDetails(RootOf(d))

FallbackFields == {"name", "pan", "dateOfBirth", "mobilePhone", "address"}

\* Every fallback field that is set in `primary` has the same value in `full`
KeepsSet(primary, full) ==
    \A f \in FallbackFields : Truthy(primary[f]) => full[f] = primary[f]

CalendarDate(code) ==
    [t |-> "date", valid |-> "yes",
     y |-> DigitsPrefix(SubSeq(code, 1, 4), 0),
     m |-> DigitsPrefix(SubSeq(code, 5, 6), 0),
     d |-> DigitsPrefix(SubSeq(code, 7, 8), 0)]

IsAbsent(v) == v \in {U, Null}

IsValidDate(v) == v.t = "date" /\ v.valid = "yes"

\* A date field is absent, or the calendar date of (one of) its code(s)
DateOfOneOf(v, codes) ==
    \/ IsAbsent(v)
    \/ IsValidDate(v) /\ \E c \in codes : Len(c) = 8 /\ v = CalendarDate(c)

\* C22: every date field of the output is either absent or a valid calendar
\* date whose year, month and day are characters 1-4, 5-6 and 7-8 of its
\* 8-character code; a code that is malformed or denotes no real calendar
\* date resolves to absent, never to an invalid date value
C22_DatesValidOrAbsent ==
    \A i \in Calls :
        results[i].out.ok =>
            /\ DateOfOneOf(results[i].out.basicDetails.dateOfBirth,
                           {ApplicantDobCode(RootOf(results[i].doc)),
                            HolderDobCode(RootOf(results[i].doc))})
            /\ \A k \in DOMAIN results[i].out.creditAccounts :
                  IF k \in DOMAIN RecordsOf(RootOf(results[i].doc))
                  THEN \A f \in 1..3 :
                          DateOfOneOf(DatesOf(results[i].out.creditAccounts[k])[f],
                                      {CodeOf(RecordsOf(RootOf(results[i].doc))[k],
                                              DateKeys[f])})
                  ELSE /\ IsAbsent(results[i].out.creditAccounts[k].dateOpened)
                          \/ IsValidDate(results[i].out.creditAccounts[k].dateOpened)
                       /\ IsAbsent(results[i].out.creditAccounts[k].dateClosed)
                          \/ IsValidDate(results[i].out.creditAccounts[k].dateClosed)
            /\ \A k \in DOMAIN results[i].out.enquiries :
                  \/ IsAbsent(results[i].out.enquiries[k].date)
                  \/ IsValidDate(results[i].out.enquiries[k].date)

\* The text the specification gives for a node
FirstStringIn(x) ==
    IF {i \in 1..Len(x.p) : x.p[i][2].t = "str"} = {} THEN ""
    ELSE x.p[Least({i \in 1..Len(x.p) : x.p[i][2].t = "str"})][2].s

TextOf(x) ==
    CASE x.t = "str" -> Trim(x.s)
      [] x.t = "num" -> ToString(x.n)
      [] x.t = "obj" /\ Lookup(x, "#text") # U -> Trim(JsToString(Lookup(x, "#text")))
      [] x.t = "obj" /\ Lookup(x, "#text") = U -> FirstStringIn(x)
      [] OTHER -> ""

Specified(x) == x.t \in {"str", "num", "obj", "undef", "null"}

\* C23: extractText returns the trimmed string for a string, the decimal
\* string for every number, 0 included, the text-content value stringified
\* and trimmed for an object carrying that key, whatever that value is, the
\* first string-typed property value or the empty string for an object
\* without the key, and the empty string for a null or undefined node
C23_ExtractText ==
    \A i \in DOMAIN checked :
        Specified(checked[i].input) => checked[i].out = TextOf(checked[i].input)

\* A field of a record is absent or an empty element
AbsentOrEmpty(record, key) == Lookup(record, key) \in {U, S("")}

\* The sanctioned amount the specification gives for a record
SanctionedOf(record) ==
    IF Lookup(record, "Credit_Limit_Amount") # U
    THEN extractNumber(Lookup(record, "Credit_Limit_Amount"))
    ELSE IF Lookup(record, "Highest_Credit_or_Original_Loan_Amount") # U
    THEN extractNumber(Lookup(record, "Highest_Credit_or_Original_Loan_Amount"))
    ELSE 0

\* C24: for every structured account record, sanctionedAmount is the value
\* of the credit-limit field whenever that field is present, the
\* highest-credit/original-loan-amount value only when the credit-limit
\* field is absent, and 0 when both are absent; bankName is 'Unknown Bank'
\* and accountNumber is 'N/A' exactly when the field is absent or empty
C24_AccountDefaults ==
    \A i \in Calls :
        (/\ results[i].out.ok
         /\ Len(RecordsOf(RootOf(results[i].doc))) > 0
         /\ Len(results[i].out.creditAccounts) = Len(RecordsOf(RootOf(results[i].doc))))
        => \A k \in DOMAIN RecordsOf(RootOf(results[i].doc)) :
              /\ results[i].out.creditAccounts[k].sanctionedAmount
                   = SanctionedOf(RecordsOf(RootOf(results[i].doc))[k])
              /\ results[i].out.creditAccounts[k].bankName = "Unknown Bank"
                   <=> AbsentOrEmpty(RecordsOf(RootOf(results[i].doc))[k],
                                     "Subscriber_Name")
              /\ results[i].out.creditAccounts[k].accountNumber = "N/A"
                   <=> AbsentOrEmpty(RecordsOf(RootOf(results[i].doc))[k],
                                     "Account_Number")

\* C25: for every document, basicDetails.name is a text string (possibly
\* empty), never a number, nested mapping or sequence, including when the
\* name is taken from one of the legacy dotted paths
C25_NameIsText ==
    \A i \in Calls :
        results[i].out.ok => results[i].out.basicDetails.name.t = "str"

\* The file of a request parsed and validateExperianXml returned true for it
Validated(r) ==
    /\ reqs[r].file # 0
    /\ parseXmlFile(FileContents[reqs[r].file]).ok
    /\ validateExperianXml(parseXmlFile(FileContents[reqs[r].file]).parsed)

\* C26: every document that validateExperianXml accepts has a locatable
\* report root: in the upload pipeline transform never throws the
\* root-not-found error for a document on which validation returned true
C26_ValidatedHasRoot ==
    \A r \in Ended : Validated(r) => reqs[r].err.message # RootNotFound

\* C27: every account that transform produces is accepted by the persistence
\* schema: its type is a member of the type enumeration and its status a
\* member of the status enumeration, for every account-type code, portfolio
\* type and status code
C27_AccountsFitSchemaEnums ==
    \A i \in Calls :
        results[i].out.ok =>
            \A k \in DOMAIN results[i].out.creditAccounts :
                /\ results[i].out.creditAccounts[k].type \in typeEnum
                /\ results[i].out.creditAccounts[k].status \in statusEnum

\* The status label begins with a word
BeginsWith(label, word) ==
    Len(label) >= Len(word) /\ SubSeq(label, 1, Len(word)) = word

\* C28: when the summary counts are derived by enumerating the structured
\* account records, they agree with the account list of the same report:
\* activeAccounts is the number of creditAccounts whose status label begins
\* with 'Active', closedAccounts the number whose label begins with 'Closed'
C28_CountsAgreeWithLabels ==
    \A i \in Calls :
        (results[i].out.ok /\ Recomputed(RootOf(results[i].doc))) =>
            /\ results[i].out.reportSummary.activeAccounts
                 = Cardinality({k \in DOMAIN results[i].out.creditAccounts :
                                  BeginsWith(results[i].out.creditAccounts[k].status,
                                             "Active")})
            /\ results[i].out.reportSummary.closedAccounts
                 = Cardinality({k \in DOMAIN results[i].out.creditAccounts :
                                  BeginsWith(results[i].out.creditAccounts[k].status,
                                             "Closed")})

\* The cloud storage refused the raw file of a request
CloudFailed(r) == Includes(reqs[r].err.message, "Cloudinary")

RawFilesOf(fileHash) == {raw \in cloud : raw.fileHash = fileHash}

\* C29: for any interleaving of two uploads of byte-identical files, exactly
\* one is answered 201 and the other 409, and exactly one raw file for that
\* content ends up in cloud storage (the storage accepting what it is sent)
C29_ConcurrentIdenticalUploads ==
    \A a, b \in Ended :
        (/\ a < b
         /\ reqs[a].file # 0
         /\ reqs[a].file = reqs[b].file
         /\ ~CloudFailed(a) /\ ~CloudFailed(b)
         /\ 201 \in {reqs[a].status, reqs[b].status})
        => /\ {reqs[a].status, reqs[b].status} = {201, 409}
           /\ Cardinality(RawFilesOf(reqs[a].file)) = 1

\* What a request left behind: its report record, its raw file
LeftBy(r) == {rep \in db : rep.id = r} \cup {raw \in cloud : raw.id = r}

\* C30: the raw file is sent to cloud storage and a report record saved only
\* after the duplicate check found no report with the file's hash and the
\* parsed document was validated; a request answered 400, 409 or 422 leaves
\* the database and the cloud storage unchanged; on every path the local
\* temporary file is removed before the request ends
C30_PipelineOrder ==
    /\ \A x \in db \cup cloud : Validated(x.id) /\ reqs[x.id].status # 409
    /\ \A r \in Ended : reqs[r].status \in {400, 409, 422} => LeftBy(r) = {}
    /\ \A r \in Ended : ~reqs[r].tmp


=============================================================================
